---- MODULE Spec2Model ----
(***************************************************************************)
(* Model of the agent execution core of code-sidecar.                      *)
(*                                                                         *)
(* Part 1: the Task orchestrator (src/src/core/task.ts), its tool-call     *)
(* handler (src/src/core/initCommand.ts, class ToolCallHandler) and its    *)
(* error handler (src/src/core/taskErrorHandler.ts).                       *)
(*                                                                         *)
(* The Task is an async, self-recursive loop.  The model keeps the call    *)
(* stack explicitly: a frame per active call of Task.start,                *)
(* Task.recursivelyMakeRequest and TaskErrorHandler.handle.  Only the top  *)
(* frame runs; the frames below are suspended in an `await` of the frame   *)
(* above.  The host (the webview) may call Task.cancel() whenever the top  *)
(* frame is suspended in an await of real I/O (context collection, the     *)
(* model stream, a tool execution, the retry delay) or after               *)
(* start() has resolved: JavaScript runs the code between two such awaits  *)
(* without interleaving.                                                   *)
(*                                                                         *)
(* Task.history is append-only and the code reads it only to send it to    *)
(* the model.  The model keeps the items pushed since the last             *)
(* createMessage call (`history`) and the mapped form in which that call   *)
(* sent the items new to it (`sent`); likewise `events` holds the messages *)
(* posted since the last model stream was opened or ended (the final       *)
(* stream_chunk of a stream is the first message after it), and counters   *)
(* hold what is needed of the older ones.                                  *)
(*                                                                         *)
(* Part 2: the MCP client and manager (src/unnamed/part_008): one client   *)
(* per provider subprocess, speaking JSON-RPC 2.0 over its stdio.  Each    *)
(* part has its own specification; the variables of the other part stay    *)
(* in their initial state.                                                 *)
(***************************************************************************)
EXTENDS Integers, Sequences, FiniteSets, TLC

\* ------------------------------------------------------------------ bounds
\* Largest iteration cap (maxLoopCount) a Task is constructed with.
MaxCap == 3
\* Largest number of tool invocations in one model turn.
MaxBatch == 2
\* Number of calls of Task.cancel() the host makes.
MaxCancels == 2
\* Number of messages posted while one model stream is being read.
MaxChunks == 1
\* Number of subprocesses of one MCPClient that exist at a time: one counts
\* from its spawn until its exit event is delivered and the connect() call
\* that spawned it is over.
MaxProcs == 1
\* Number of requests one MCPClient sends.
MaxRequests == 4
\* Number of calls of PermissionManager.checkPermission.
MaxChecks == 2
\* Number of pieces (texts and tags) of a model output.
MaxPieces == 3
\* Number of complete lines a subprocess writes.
MaxLines == 2

\* --------------------------------------------------------------- constants
\* Retries the recovery policy grants per operation ("retried once").
MaxRetries == 1

\* The completion tool, and one ordinary tool.
AttemptCompletion == "attempt_completion"
OtherTool == "read_file"
ToolNames == {AttemptCompletion, OtherTool}

\* Operation keys handed to the error handler: "task_start" and
\* "react_loop_<k>" for the loop count k at the time of the catch.
OpTaskStart == 0
ReactLoopOp(k) == k
Operations == 0..(MaxCap + 1)

VARIABLES
  maxLoopCount,     \* Task.maxLoopCount
  loopCount,        \* Task.loopCount
  isCancelled,      \* Task.isCancelled
  isCompleted,      \* Task.isCompleted
  abortController,  \* Task.abortController # null
  history,          \* Task.history: the items pushed since the last createMessage call
  stack,            \* the call stack of the async functions, top last
  assistantContent, \* the finalized content blocks of the current model turn
  nextTool,         \* executeToolCalls: index of the next invocation of the for loop
  inFlight,         \* indices of the invocations whose executeTool has not returned
  results,          \* executeToolCalls: results
  recorded,         \* how many results the loop of task.ts:296 has recorded
  events,           \* messages posted to the webview since a model stream was last opened or ended
  retryAttempts,    \* ErrorHandler: retry attempts per operation
  streamsOpened,    \* number of calls of ApiHandler.createMessage
  streamFails,      \* consecutive model streams that failed
  cancelCalls,      \* number of calls of Task.cancel()
  completedBy,      \* which call site of completeTask completed the Task
  sent,             \* the new messages handed to the createMessage call whose stream is open
  taskCompletes,    \* number of task_complete messages posted
  faults,           \* number of failures caught by a catch block of the Task
  openStreams,      \* model streams created by createMessage and not ended yet
  fileChangeTracker, \* the ToolExecutor's file-change tracker is the diffTracker of the Task
  messages          \* ConversationHistoryManager: the messages that hold a tool call and no tool result
                    \* (NotFollowed where the display history is left out)

vars == <<maxLoopCount, loopCount, isCancelled, isCompleted, abortController,
          history, stack, assistantContent, nextTool, inFlight, results,
          recorded, events, retryAttempts, streamsOpened, streamFails,
          cancelCalls, completedBy, sent, taskCompletes, faults, openStreams,
          fileChangeTracker, messages>>

VARIABLES
  client,           \* the MCPClient objects, by instance
  registry          \* MCPManager: the live-client map and the instances created

mcpVars == <<client, registry>>

VARIABLES
  registeredTools,  \* MCPToolRegistry.registeredTools: the MCPTool of each name
  permission,       \* the PermissionManager and the timers it armed
  parser            \* the model stream being read and its AssistantMessageParser

hostVars == <<registeredTools, permission, parser>>

\* ------------------------------------------------- MCP client: data, Init
\* The configured providers, and the MCPClient instances that can be made.
Providers == {"A", "B"}
Clients == 1..2

\* The tools a provider may announce.
ToolUniverse == {"search", "fetch"}

\* A connect() call that was not made, a request that was not sent.
\* An Error, reduced to the text that identifies it and the diagnostic
\* output it quotes.
Msg(text, diag) == [text |-> text, diag |-> diag]
NoError == Msg("", "")

\* A connect() call that was not made, a request that was not sent.
NoConnect ==
  [pc |-> "none", processExited |-> FALSE, exitError |-> NoError,
   stderrOutput |-> "", exitCode |-> "", failure |-> NoError]
NoRequest ==
  [method |-> "", by |-> 0, outcome |-> "none", reason |-> NoError,
   value |-> {}, settles |-> 0]
\* What the last step's callTool did, and the message the last step handled.
NoCall == [name |-> "", outcome |-> "none", value |-> {}]
NoMessage == [kind |-> "none", id |-> 0, error |-> FALSE, result |-> {}]

\* MCPClient, as constructed (part_008:48-65).  Besides the fields of the
\* class the record holds what belongs to the object's closures and to its
\* environment: the subprocesses it spawned that still exist (procs), the
\* connect() call that spawned each (connects), the requests it sent (requests), the
\* armed request timers (timers), what the last step wrote to the
\* subprocess (written), the statuses published by the last step after the
\* status in force before it (published), the errors of the snapshots
\* with status error that it published (reported), and the promise
\* reactions still to run (jobs).
NewClient ==
  [status |-> "disconnected", error |-> NoError, process |-> 0, requestId |-> 0,
   pendingRequests |-> {}, timers |-> {}, buffer |-> "", tools |-> {},
   published |-> <<"disconnected">>,
   procs |-> [k \in 1..MaxProcs |-> "none"],
   connects |-> [k \in 1..MaxProcs |-> NoConnect],
   requests |-> [i \in 1..MaxRequests |-> NoRequest],
   written |-> <<>>, jobs |-> <<>>, lastCall |-> NoCall,
   lastMessage |-> NoMessage, reported |-> <<>>]

\* MCPManager, as constructed (part_008:525-532): no live client, no server
\* definition.  Besides the fields of the class the record holds the number
\* of MCPClient objects made so far (created) and the error the last call
\* of a manager method threw, "" when it threw none (thrown).
NewRegistry ==
  [clients |-> [p \in Providers |-> 0], configs |-> <<>>, created |-> 0,
   thrown |-> ""]

\* No MCP provider is in use.
McpUnused ==
  /\ client = <<>>
  /\ registry = NewRegistry

\* MCPToolRegistry, as constructed (part_007:121-127): no tool registered.
NoTools == <<>>

\* -------------------------------------------- PermissionManager: data
\* A text is the sequence of its pieces: single characters, blanks, or
\* words that are kept whole.  String.toLowerCase, piece by piece.
toLowerCase(ch) ==
  CASE ch = "A" -> "a"
    [] ch = "B" -> "b"
    [] ch = "Read" -> "read"
    [] ch = "WRITE" -> "write"
    [] ch = "Execute" -> "execute"
    [] ch = "Delete" -> "delete"
    [] OTHER -> ch

\* String.trim: the blanks at both ends are dropped.
RECURSIVE trim(_)
trim(text) ==
  IF text = <<>> THEN text
  ELSE IF Head(text) = " " THEN trim(Tail(text))
  ELSE IF text[Len(text)] = " " THEN trim(SubSeq(text, 1, Len(text) - 1))
  ELSE text

\* PermissionManager.ts:24-25 and 40-42  operation.trim().toLowerCase()
normalizeOperation(operation) ==
  LET trimmed == trim(operation)
  IN [i \in DOMAIN trimmed |-> toLowerCase(trimmed[i])]

\* PermissionManager.ts:14-22  the setting that lets an operation pass.
OPERATION_DEFAULTS ==
  [operation \in {<<"read">>, <<"write">>, <<"modify">>, <<"execute">>} |->
     CASE operation = <<"read">> -> "allowReadByDefault"
       [] operation = <<"write">> -> "allowWriteByDefault"
       [] operation = <<"modify">> -> "allowWriteByDefault"
       [] operation = <<"execute">> -> "allowExecuteByDefault"]

\* shared/types/config.ts:15-20
DEFAULT_PERMISSION_SETTINGS ==
  [allowReadByDefault |-> TRUE, allowWriteByDefault |-> FALSE,
   allowExecuteByDefault |-> FALSE,
   alwaysConfirm |-> << <<"delete">>, <<"execute">> >>]

\* updates?.key ?? base.key
OrBase(updates, base, key) ==
  IF key \in DOMAIN updates THEN updates[key] ELSE base[key]

\* PermissionManager.ts:36-53  mergeSettings
mergeSettings(base, updates) ==
  LET listed == OrBase(updates, base, "alwaysConfirm")
  IN [allowReadByDefault |-> OrBase(updates, base, "allowReadByDefault"),
      allowWriteByDefault |-> OrBase(updates, base, "allowWriteByDefault"),
      allowExecuteByDefault |-> OrBase(updates, base, "allowExecuteByDefault"),
      alwaysConfirm |-> [i \in DOMAIN listed |-> normalizeOperation(listed[i])]]

\* Settings that set nothing.
NoUpdates == <<>>

\* PermissionManager, as constructed without settings
\* (PermissionManager.ts:31-60, AgentWebviewProvider.ts:64).  Besides the
\* fields of the class the record holds the armed timers of the requests
\* (timers) and, for each call of checkPermission in turn, the operation
\* asked for, the way the decision was sought and the decision (calls).
NewPermissionManager ==
  [settings |-> mergeSettings(DEFAULT_PERMISSION_SETTINGS, NoUpdates),
   webviewProvider |-> FALSE, pendingRequests |-> {}, timers |-> {},
   calls |-> <<>>]

\* ----------------------------------------- streamAssistantResponse: data
\* streamAssistantResponse as called for a model stream that will deliver
\* output (assistantStreaming.ts:100-106), with a new parser
\* (assistantStreaming.ts:49-55): nothing is received yet.  Besides the
\* locals of the function the record holds the output still to come
\* (output, fed, fragments), the text the parser was given so far (received) and
\* what the function returned (contentBlocks, returned).
NewStream(output) ==
  [output |-> output, fed |-> 0, fragments |-> 0, assistantMessage |-> <<>>,
   usage |-> FALSE,
   received |-> <<>>, contentBlocks |-> <<>>, returned |-> FALSE]

\* No model stream is being read.
NoStream == NewStream(<<>>)

\* The other components of the extension, as constructed.
HostIdle ==
  /\ registeredTools = NoTools
  /\ permission = NewPermissionManager

HostUnused ==
  /\ HostIdle
  /\ parser = NoStream

\* ------------------------------------------------------------ data helpers
Last(s) == s[Len(s)]
Pop(s) == SubSeq(s, 1, Len(s) - 1)

Frame(fn, pc, op, retryable) ==
  [fn |-> fn, pc |-> pc, op |-> op, retryable |-> retryable]

Top == Last(stack)
Running(fn, pc) == stack # <<>> /\ Top.fn = fn /\ Top.pc = pc
Goto(pc) == [stack EXCEPT ![Len(stack)].pc = pc]

\* HistoryItem: role user | assistant | tool_result.
UserItem(text) ==
  [role |-> "user", text |-> text, tool_name |-> "", is_error |-> FALSE]
AssistantItem ==
  [role |-> "assistant", text |-> "reply", tool_name |-> "", is_error |-> FALSE]
ToolResultItem(r) ==
  [role |-> "tool_result", text |-> "", tool_name |-> r.tool_name, is_error |-> r.is_error]

\* WebviewMessage, reduced to its type (and the tool it is about).
Event(type, name) == [type |-> type, name |-> name]
LimitNotice == Event("error", "limit")
ErrorNotice == Event("error", "handler")
TaskComplete == Event("task_complete", "")

\* The display history is left out of the specifications that do not read
\* it: one placeholder stands for its messages, and what is added to it
\* and attached in it is not kept.
NotFollowed == <<[name |-> "", turn |-> 0, index |-> 0]>>

\* Content blocks of a finalized model turn.
TextContent(content) == [type |-> "text", name |-> "", content |-> content]
TextBlock == TextContent(<<"text">>)
ToolUse(n) == [type |-> "tool_use", name |-> n]

RECURSIVE SeqsUpTo(_, _)
SeqsUpTo(S, n) ==
  IF n = 0 THEN {<<>>}
  ELSE LET shorter == SeqsUpTo(S, n - 1)
       IN shorter \cup {Append(s, x) : s \in {t \in shorter : Len(t) = n - 1}, x \in S}

\* What the parser can hand back for one stream: nothing at all, free text
\* only, or a batch of 1..MaxBatch tool invocations (after optional text).
ToolBatches == {b \in SeqsUpTo({ToolUse(n) : n \in ToolNames}, MaxBatch) : Len(b) >= 1}
ParsedReplies == {<<>>, <<TextBlock>>} \cup ToolBatches

RECURSIVE SelectSeq2(_, _)
SelectSeq2(s, type) ==
  IF s = <<>> THEN <<>>
  ELSE IF s[1].type = type THEN <<s[1]>> \o SelectSeq2(Tail(s), type)
  ELSE SelectSeq2(Tail(s), type)

\* ------------------------------------------------------------------- Task
TaskState ==
  /\ maxLoopCount \in 1..MaxCap
  /\ loopCount = 0
  /\ isCancelled = FALSE
  /\ isCompleted = FALSE
  /\ abortController = FALSE
  /\ history = <<>>
  /\ stack = <<Frame("start", "collect", OpTaskStart, FALSE)>>
  /\ assistantContent = <<>>
  /\ nextTool = 1
  /\ inFlight = {}
  /\ results = <<>>
  /\ recorded = 0
  /\ events = <<>>
  /\ retryAttempts = [o \in Operations |-> 0]
  /\ streamsOpened = 0
  /\ streamFails = 0
  /\ cancelCalls = 0
  /\ completedBy = "none"
  /\ sent = <<>>
  /\ taskCompletes = 0
  /\ faults = 0
  /\ openStreams = 0
  /\ fileChangeTracker = TRUE

\* A Task as constructed, the display history left out.
TaskFields ==
  /\ TaskState
  /\ messages = NotFollowed

\* A Task is constructed; no MCP provider is in use.
Init == TaskFields /\ McpUnused /\ HostUnused

\* Mutant: the cap is compared off by one.
shouldContinueLoop_OffByOne == loopCount <= maxLoopCount

\* Task.shouldContinueLoop
shouldContinueLoop == loopCount < maxLoopCount

\* Mutant: the counter is not incremented.
NextLoopCount_NoIncrement == loopCount

\* task.ts:182  this.loopCount++
NextLoopCount == loopCount + 1

\* Mutant: the loop does not read the cancellation flag.
CancelledAtEntry_Unchecked == FALSE

\* task.ts:165  if (this.isCancelled)
CancelledAtEntry == isCancelled

\* Mutant: completeTask without its isCompleted guard.
completeTask_NoGuard(site, ev) ==
  /\ isCompleted' = TRUE
  /\ fileChangeTracker' = FALSE
  /\ events' = Append(ev, TaskComplete)
  /\ completedBy' = site
  /\ taskCompletes' = taskCompletes + 1

\* Task.completeTask, called from `site` after the caller has posted `ev`.
completeTask(site, ev) ==
  /\ isCompleted' = TRUE
  /\ fileChangeTracker' = IF isCompleted THEN fileChangeTracker ELSE FALSE
  /\ events' = IF isCompleted THEN ev ELSE Append(ev, TaskComplete)
  /\ completedBy' = IF isCompleted THEN completedBy ELSE site
  /\ taskCompletes' = IF isCompleted THEN taskCompletes ELSE taskCompletes + 1

\* buildAssistantContent: the parsed blocks, or one text block holding the
\* (trimmed, possibly empty) raw message when the parser produced none.
buildAssistantContent(parsedBlocks, assistantMessage) ==
  IF Len(parsedBlocks) > 0 THEN parsedBlocks
  ELSE <<TextContent(trim(assistantMessage))>>

\* The raw message of a stream for which the parser produced no block:
\* nothing, or blanks.
BlankMessages == {<<>>, <<" ">>}

\* task.ts:264  assistantContent.filter(type === "tool_use")
toolCalls == SelectSeq2(assistantContent, "tool_use")

\* task.ts:275  assistantContent.some(type === "text")
hasTextContent == \E i \in 1..Len(assistantContent) : assistantContent[i].type = "text"

\* hasAttemptCompletion(toolCalls)
hasAttemptCompletion(calls) == \E i \in 1..Len(calls) : calls[i].name = AttemptCompletion

\* Mutant: a failed result is presented like a successful one.
formatToolResult_IgnoreError(item) ==
  [role |-> "user", text |-> "[TOOL RESULT: name]", tool_name |-> item.tool_name, is_error |-> FALSE]

\* formatToolResult: the text a tool result is presented with to the model.
formatToolResult(item) ==
  IF item.is_error
  THEN [role |-> "user", text |-> "[TOOL ERROR: name]", tool_name |-> item.tool_name, is_error |-> FALSE]
  ELSE [role |-> "user", text |-> "[TOOL RESULT: name]", tool_name |-> item.tool_name, is_error |-> FALSE]

\* task.ts:187  the history as sent to the model.
MappedHistory(h) ==
  [i \in 1..Len(h) |-> IF h[i].role = "tool_result" THEN formatToolResult(h[i]) ELSE h[i]]

\* The operation key of a catch block: "task_start" in Task.start,
\* "react_loop_<loopCount>" in recursivelyMakeRequest.
CatchOperation == IF Top.fn = "start" THEN OpTaskStart ELSE ReactLoopOp(loopCount)

\* A call: the caller awaits the callee.
Call(frame) == Append(Goto("await"), frame)

\* The places where the running code is suspended in an await of real I/O or
\* of a timer (or start() has resolved): the host's events are served there.
Suspended ==
  \/ stack = <<>>
  \/ Running("start", "collect")
  \/ Running("loop", "streaming")
  \/ Running("loop", "tools") /\ inFlight # {}
  \/ Running("handle", "delay")

\* A new call of recursivelyMakeRequest starts with its own locals.
FreshLocals ==
  /\ assistantContent' = <<>>
  /\ nextTool' = 1
  /\ inFlight' = {}
  /\ results' = <<>>
  /\ recorded' = 0

\* --- ErrorHandler (managers/ErrorHandler): the recovery policy.
\* handleError(...).shouldRetry: the failure is transport/protocol and the
\* operation has retries left.
shouldRetry(retryable, op) == retryable /\ retryAttempts[op] < MaxRetries
\* isRetryable(error)
isRetryable(retryable) == retryable
\* attemptRecovery(...): what it may answer; a granted recovery is counted.
RecoveryOutcomes(op) ==
  IF retryAttempts[op] < MaxRetries THEN BOOLEAN ELSE {FALSE}
\* resetRetryAttempts(operation)
resetRetryAttempts(attempts, op) == [attempts EXCEPT ![op] = 0]

\* --- returns
\* Every call of the model is the last thing its caller does: start() and
\* recursivelyMakeRequest return when the call they await returns
\* (task.ts:134-138, 280-286, 332-336), and handle, which awaits only
\* retry(), resets the retry attempts of its operation and returns
\* (taskErrorHandler.ts:55-57; recursivelyMakeRequest catches everything
\* itself, so the catch of taskErrorHandler.ts:58 never runs).  No await of
\* I/O lies between these returns: when the top call returns, start()
\* resolves in the same step.
RECURSIVE AttemptsAfterReturn(_, _)
AttemptsAfterReturn(callers, attempts) ==
  IF callers = <<>> THEN attempts
  ELSE LET caller == Last(callers)
       IN AttemptsAfterReturn(Pop(callers),
            IF caller.fn = "handle" THEN resetRetryAttempts(attempts, caller.op)
            ELSE attempts)

\* The top call returns, having left the retry attempts at `attempts`.
ReturnToHost(attempts) ==
  /\ stack' = <<>>
  /\ retryAttempts' = AttemptsAfterReturn(Pop(stack), attempts)

\* --- TaskErrorHandler.handle (taskErrorHandler.ts:20-68)
\* taskErrorHandler.ts:37-40  the error is posted to the webview.
PostError(ev) == Append(ev, ErrorNotice)

\* taskErrorHandler.ts:42-51  the retry is decided: shouldRetry, then
\* attemptRecovery grants it, then isRetryable.
RetryDecided(retryable, op, canRecover) ==
  shouldRetry(retryable, op) /\ canRecover /\ isRetryable(retryable)

\* Mutant: the handler gives up without ending the Task.
GiveUp_NoComplete(ev) ==
  /\ events' = ev
  /\ UNCHANGED <<isCompleted, fileChangeTracker, completedBy, taskCompletes>>

\* taskErrorHandler.ts:66-67  no retry: the Task is ended.
GiveUp(ev) == completeTask("error", ev)

\* A catch block (task.ts:135, 333) hands the error to handle, after the
\* failing code has posted `ev`.  handle posts the error; then either it
\* grants a retry and waits 1 s (taskErrorHandler.ts:52), or it ends the
\* Task and returns.
Handle(retryable, ev) ==
  LET op == CatchOperation
  IN \E canRecover \in RecoveryOutcomes(op) :
       IF RetryDecided(retryable, op, canRecover)
       THEN /\ events' = PostError(ev)
            /\ retryAttempts' = [retryAttempts EXCEPT ![op] = @ + 1]
            /\ stack' = Call(Frame("handle", "delay", op, retryable))
            /\ UNCHANGED <<isCompleted, fileChangeTracker, completedBy, taskCompletes>>
       ELSE /\ GiveUp(PostError(ev))
            /\ ReturnToHost(retryAttempts)

\* What options.retry() runs (task.ts:96): the loop, on this.history.
RetryCall == Call(Frame("loop", "entry", OpTaskStart, FALSE))

\* taskErrorHandler.ts:52-55  the 1 s timer fired: options.retry().
RetryAfterDelay ==
  /\ Running("handle", "delay")
  /\ stack' = RetryCall
  /\ FreshLocals
  /\ UNCHANGED <<maxLoopCount, loopCount, isCancelled, isCompleted, fileChangeTracker,
                 abortController, history, events, retryAttempts,
                 streamsOpened, streamFails, cancelCalls, completedBy, sent,
                 taskCompletes, faults>>
  /\ UNCHANGED <<openStreams, messages, mcpVars, hostVars>>

\* --- Task.start (task.ts:104-138)
\* collectContext resolved: the user message is pushed and the loop entered.
StartCollected ==
  /\ Running("start", "collect")
  /\ history' = Append(history, UserItem("request"))
  /\ stack' = Call(Frame("loop", "entry", OpTaskStart, FALSE))
  /\ FreshLocals
  /\ UNCHANGED <<maxLoopCount, loopCount, isCancelled, isCompleted, fileChangeTracker,
                 abortController, events, retryAttempts, streamsOpened,
                 streamFails, cancelCalls, completedBy, sent, taskCompletes,
                 faults>>
  /\ UNCHANGED <<openStreams, messages, mcpVars, hostVars>>

\* collectContext rejected: caught at task.ts:135.
StartCollectFail ==
  /\ Running("start", "collect")
  /\ \E retryable \in BOOLEAN : Handle(retryable, events)
  /\ faults' = faults + 1
  /\ UNCHANGED <<maxLoopCount, loopCount, isCancelled, abortController,
                 history, assistantContent, nextTool, inFlight, results,
                 recorded, streamsOpened, streamFails, cancelCalls, sent>>
  /\ UNCHANGED <<openStreams, messages, mcpVars, hostVars>>

\* --- Task.recursivelyMakeRequest (task.ts:163-336)
\* task.ts:165-170
LoopCancelled ==
  /\ Running("loop", "entry")
  /\ CancelledAtEntry
  /\ ReturnToHost(retryAttempts)
  /\ UNCHANGED <<maxLoopCount, loopCount, isCancelled, isCompleted, fileChangeTracker,
                 abortController, history, assistantContent, nextTool,
                 inFlight, results, recorded, events, streamsOpened,
                 streamFails, cancelCalls, completedBy, sent, taskCompletes,
                 faults>>
  /\ UNCHANGED <<openStreams, messages, mcpVars, hostVars>>

\* Mutant: at the iteration limit the loop returns without ending the Task.
LoopLimit_Silent ==
  /\ Running("loop", "entry")
  /\ ~CancelledAtEntry
  /\ ~shouldContinueLoop
  /\ ReturnToHost(retryAttempts)
  /\ UNCHANGED <<maxLoopCount, loopCount, isCancelled, isCompleted, fileChangeTracker,
                 abortController, history, assistantContent, nextTool,
                 inFlight, results, recorded, events, streamsOpened,
                 streamFails, cancelCalls, completedBy, sent, taskCompletes,
                 faults>>
  /\ UNCHANGED <<openStreams, messages, mcpVars, hostVars>>

\* task.ts:173-180
LoopLimit ==
  /\ Running("loop", "entry")
  /\ ~CancelledAtEntry
  /\ ~shouldContinueLoop
  /\ completeTask("limit", Append(events, LimitNotice))
  /\ ReturnToHost(retryAttempts)
  /\ UNCHANGED <<maxLoopCount, loopCount, isCancelled, abortController,
                 history, assistantContent, nextTool, inFlight, results,
                 recorded, streamsOpened, streamFails, cancelCalls, sent,
                 faults>>
  /\ UNCHANGED <<openStreams, messages, mcpVars, hostVars>>

\* task.ts:182
LoopIterate ==
  /\ Running("loop", "entry")
  /\ ~CancelledAtEntry
  /\ shouldContinueLoop
  /\ loopCount' = NextLoopCount
  /\ stack' = Goto("prompt")
  /\ UNCHANGED <<maxLoopCount, isCancelled, isCompleted, fileChangeTracker, abortController,
                 history, assistantContent, nextTool, inFlight, results,
                 recorded, events, retryAttempts, streamsOpened, streamFails,
                 cancelCalls, completedBy, sent, taskCompletes, faults>>
  /\ UNCHANGED <<openStreams, messages, mcpVars, hostVars>>

\* Mutant: the stream is not awaited, the code goes on and may call
\* createMessage again.
StreamAwait_Skipped == "prompt"

\* task.ts:207-208  `await streamAssistantResponse(...)`: where the call that
\* opened a stream is until the stream has ended.
StreamAwait == "streaming"

\* task.ts:184-204  the system prompt is built and the model stream opened.
OpenStream ==
  /\ Running("loop", "prompt")
  /\ sent' = MappedHistory(history)
  /\ abortController' = TRUE
  /\ streamsOpened' = streamsOpened + 1
  /\ stack' = Goto(StreamAwait)
  /\ history' = <<>>
  /\ events' = <<>>
  /\ UNCHANGED <<maxLoopCount, loopCount, isCancelled, isCompleted, fileChangeTracker,
                 assistantContent, nextTool, inFlight, results, recorded,
                 retryAttempts, streamFails, cancelCalls, completedBy,
                 taskCompletes, faults>>
  /\ openStreams' = openStreams + 1
  /\ UNCHANGED <<messages, mcpVars, hostVars>>

\* task.ts:185  getSystemPrompt (PromptBuilder) throws.
PromptFail ==
  /\ Running("loop", "prompt")
  /\ \E retryable \in BOOLEAN : Handle(retryable, events)
  /\ faults' = faults + 1
  /\ UNCHANGED <<maxLoopCount, loopCount, isCancelled, abortController,
                 history, assistantContent, nextTool, inFlight, results,
                 recorded, streamsOpened, streamFails, cancelCalls, sent>>
  /\ UNCHANGED <<openStreams, messages, mcpVars, hostVars>>

\* What the chunk loop posts for a content chunk: the display text so far,
\* or a tool invocation the parser has seen (new or changed).
ChunkMessages ==
  {Event("stream_chunk", "partial")} \cup {Event("tool_call", n) : n \in ToolNames}

\* assistantStreaming.ts:188-204  a content chunk arrives and is published;
\* the chunk loop is left without publishing once the Task is cancelled.
StreamChunk ==
  /\ Running("loop", "streaming")
  /\ ~isCancelled
  /\ Len(events) < MaxChunks
  /\ \E m \in ChunkMessages : events' = Append(events, m)
  /\ UNCHANGED <<maxLoopCount, loopCount, isCancelled, isCompleted, fileChangeTracker,
                 abortController, history, stack, assistantContent, nextTool,
                 inFlight, results, recorded, retryAttempts, streamsOpened,
                 streamFails, cancelCalls, completedBy, sent, taskCompletes,
                 faults>>
  /\ UNCHANGED <<openStreams, messages, mcpVars, hostVars>>

\* streamAssistantResponse returned (the stream ended, or the chunk loop left
\* on the cancellation flag): assistantStreaming.ts:206-219, task.ts:231-266.
StreamEnd ==
  /\ Running("loop", "streaming")
  /\ \E parsedBlocks \in ParsedReplies, assistantMessage \in BlankMessages :
       assistantContent' = buildAssistantContent(parsedBlocks, assistantMessage)
  /\ events' = <<Event("stream_chunk", "final")>>
  /\ abortController' = FALSE
  /\ history' = Append(history, AssistantItem)
  /\ streamFails' = 0
  /\ stack' = Goto("post_stream")
  /\ sent' = <<>>
  /\ UNCHANGED <<maxLoopCount, loopCount, isCancelled, isCompleted, fileChangeTracker, nextTool,
                 inFlight, results, recorded, retryAttempts, streamsOpened,
                 cancelCalls, completedBy, taskCompletes, faults>>
  /\ openStreams' = openStreams - 1
  /\ UNCHANGED <<messages, mcpVars, hostVars>>

\* The model stream threw (transport or protocol failure, or the abort of
\* cancel()): caught at task.ts:333.
StreamFail ==
  /\ Running("loop", "streaming")
  /\ \E retryable \in BOOLEAN : Handle(retryable, events)
  /\ streamFails' = streamFails + 1
  /\ faults' = faults + 1
  /\ sent' = <<>>
  /\ UNCHANGED <<maxLoopCount, loopCount, isCancelled, abortController,
                 history, assistantContent, nextTool, inFlight, results,
                 recorded, streamsOpened, cancelCalls>>
  /\ openStreams' = openStreams - 1
  /\ UNCHANGED <<messages, mcpVars, hostVars>>

\* task.ts:269-287  no tool invocation in the finalized content.
NoToolCalls ==
  /\ Running("loop", "post_stream")
  /\ Len(toolCalls) = 0
  /\ IF hasTextContent
     THEN /\ history' = Append(history, UserItem("noToolsUsed"))
          /\ stack' = Call(Frame("loop", "entry", OpTaskStart, FALSE))
          /\ UNCHANGED <<isCompleted, fileChangeTracker, events, completedBy, taskCompletes,
                         retryAttempts>>
     ELSE /\ completeTask("empty", events)
          /\ ReturnToHost(retryAttempts)
          /\ UNCHANGED history
  /\ FreshLocals
  /\ UNCHANGED <<maxLoopCount, loopCount, isCancelled, abortController,
                 streamsOpened, streamFails, cancelCalls, sent, faults>>
  /\ UNCHANGED <<openStreams, messages, mcpVars, hostVars>>

\* task.ts:290-293  executeToolCalls is entered.
BeginTools ==
  /\ Running("loop", "post_stream")
  /\ Len(toolCalls) > 0
  /\ results' = <<>>
  /\ nextTool' = 1
  /\ inFlight' = {}
  /\ recorded' = 0
  /\ stack' = Goto("tools")
  /\ UNCHANGED <<maxLoopCount, loopCount, isCancelled, isCompleted, fileChangeTracker,
                 abortController, history, assistantContent, events,
                 retryAttempts, streamsOpened, streamFails, cancelCalls,
                 completedBy, sent, taskCompletes, faults>>
  /\ UNCHANGED <<openStreams, messages, mcpVars, hostVars>>

\* --- the display history (ConversationHistoryManager)
\* initCommand.ts:84-88  the message added for invocation i of the batch of
\* the current model turn: it holds the invocation and no result.
ToolCallMessage(i) ==
  [name |-> toolCalls[i].name, turn |-> streamsOpened, index |-> i]

\* ConversationHistoryManager.addMessage
addMessage(msgs, message) ==
  IF msgs = NotFollowed THEN msgs ELSE Append(msgs, message)

\* task.ts:309-314  findIndex: the first message that holds an invocation
\* of the tool and no result; 0 for -1.
lastToolCallIndex(msgs, tool_name) ==
  LET hits == {i \in DOMAIN msgs : msgs[i].name = tool_name}
  IN IF hits = {} THEN 0 ELSE CHOOSE i \in hits : \A j \in hits : i <= j

\* task.ts:308-319  the result is attached to the message found, which
\* from then on holds a result; nothing is attached when none is found.
attachToolResult(msgs, result) ==
  LET index == IF msgs = NotFollowed THEN 0
               ELSE lastToolCallIndex(msgs, result.tool_name)
  IN IF index = 0 THEN msgs
     ELSE SubSeq(msgs, 1, index - 1) \o SubSeq(msgs, index + 1, Len(msgs))

\* --- ToolCallHandler.executeToolCalls (initCommand.ts:71-99)
\* Mutant: the next invocation is started without awaiting the previous one.
PreviousToolReturned_NoAwait == TRUE

\* initCommand.ts:90  `await executeTool(...)`: the for loop goes on when
\* the call has returned.
PreviousToolReturned == inFlight = {}

\* Mutant: the cancellation flag is not read inside the for loop.
DispatchAllowed_Unchecked == TRUE

\* initCommand.ts:75  the cancellation flag is read before each dispatch.
DispatchAllowed == ~isCancelled

\* initCommand.ts:74-90  one invocation is published and handed to executeTool.
DispatchTool ==
  /\ Running("loop", "tools")
  /\ PreviousToolReturned
  /\ nextTool <= Len(toolCalls)
  /\ DispatchAllowed
  /\ events' = Append(events, Event("tool_call", toolCalls[nextTool].name))
  /\ messages' = addMessage(messages, ToolCallMessage(nextTool))
  /\ inFlight' = inFlight \cup {nextTool}
  /\ nextTool' = nextTool + 1
  /\ UNCHANGED <<maxLoopCount, loopCount, isCancelled, isCompleted, fileChangeTracker,
                 abortController, history, stack, assistantContent, results,
                 recorded, retryAttempts, streamsOpened, streamFails,
                 cancelCalls, completedBy, sent, taskCompletes, faults>>
  /\ UNCHANGED <<openStreams, mcpVars, hostVars>>

\* ToolExecutor.executeTool: the result of invocation i, failed or not.
ToolResult(i, is_error) ==
  [tool_name |-> toolCalls[i].name, is_error |-> is_error, index |-> i]

\* initCommand.ts:90-95  executeTool returned; its result is pushed.
ToolReturn ==
  /\ Running("loop", "tools")
  /\ \E i \in inFlight, is_error \in BOOLEAN :
       /\ results' = Append(results, ToolResult(i, is_error))
       /\ inFlight' = inFlight \ {i}
  /\ UNCHANGED <<maxLoopCount, loopCount, isCancelled, isCompleted, fileChangeTracker,
                 abortController, history, stack, assistantContent, nextTool,
                 recorded, events, retryAttempts, streamsOpened, streamFails,
                 cancelCalls, completedBy, sent, taskCompletes, faults>>
  /\ UNCHANGED <<openStreams, messages, mcpVars, hostVars>>

\* The dispatch itself threw (executeTool rejected): executeToolCalls has no
\* catch, the error reaches task.ts:333.
DispatchFail ==
  /\ Running("loop", "tools")
  /\ inFlight # {}
  /\ \E retryable \in BOOLEAN : Handle(retryable, events)
  /\ inFlight' = {}
  /\ faults' = faults + 1
  /\ UNCHANGED <<maxLoopCount, loopCount, isCancelled, abortController,
                 history, assistantContent, nextTool, results, recorded,
                 streamsOpened, streamFails, cancelCalls, sent>>
  /\ UNCHANGED <<openStreams, messages, mcpVars, hostVars>>

\* initCommand.ts:74-76, 98  the for loop ends (exhausted, or break on cancel).
ToolsDone ==
  /\ Running("loop", "tools")
  /\ PreviousToolReturned
  /\ nextTool > Len(toolCalls) \/ ~DispatchAllowed
  /\ stack' = Goto("record")
  /\ UNCHANGED <<maxLoopCount, loopCount, isCancelled, isCompleted, fileChangeTracker,
                 abortController, history, assistantContent, nextTool,
                 inFlight, results, recorded, events, retryAttempts,
                 streamsOpened, streamFails, cancelCalls, completedBy, sent,
                 taskCompletes, faults>>
  /\ UNCHANGED <<openStreams, messages, mcpVars, hostVars>>

\* task.ts:296-320  one result is pushed to the history and posted.
RecordResult ==
  /\ Running("loop", "record")
  /\ recorded < Len(results)
  /\ history' = Append(history, ToolResultItem(results[recorded + 1]))
  /\ events' = Append(events, Event("tool_result", results[recorded + 1].tool_name))
  /\ messages' = attachToolResult(messages, results[recorded + 1])
  /\ recorded' = recorded + 1
  /\ UNCHANGED <<maxLoopCount, loopCount, isCancelled, isCompleted, fileChangeTracker,
                 abortController, stack, assistantContent, nextTool, inFlight,
                 results, retryAttempts, streamsOpened, streamFails,
                 cancelCalls, completedBy, sent, taskCompletes, faults>>
  /\ UNCHANGED <<openStreams, mcpVars, hostVars>>

\* task.ts:308-319  the update of the display history threw, after the
\* result was pushed and posted: getMessages threw, or updateMessages did,
\* having stored the messages or not.
HistoryUpdateFail ==
  /\ Running("loop", "record")
  /\ recorded < Len(results)
  /\ history' = Append(history, ToolResultItem(results[recorded + 1]))
  /\ recorded' = recorded + 1
  /\ \E stored \in BOOLEAN :
       messages' = IF stored
                   THEN attachToolResult(messages, results[recorded + 1])
                   ELSE messages
  /\ \E retryable \in BOOLEAN :
       Handle(retryable, Append(events, Event("tool_result", results[recorded + 1].tool_name)))
  /\ faults' = faults + 1
  /\ UNCHANGED <<maxLoopCount, loopCount, isCancelled, abortController,
                 assistantContent, nextTool, inFlight, results, streamsOpened,
                 streamFails, cancelCalls, sent>>
  /\ UNCHANGED <<openStreams, mcpVars, hostVars>>

\* Mutant: completion is checked before the results are recorded.
BatchRecorded_Early == TRUE

\* task.ts:296-323  hasCompletion is read after the for loop over the results.
BatchRecorded == recorded = Len(results)

\* task.ts:323-329  attempt_completion was among the invocations.
CompletionRequested ==
  /\ Running("loop", "record")
  /\ BatchRecorded
  /\ hasAttemptCompletion(toolCalls)
  /\ completeTask("completion", events)
  /\ ReturnToHost(retryAttempts)
  /\ UNCHANGED <<maxLoopCount, loopCount, isCancelled, abortController,
                 history, assistantContent, nextTool, inFlight, results,
                 recorded, streamsOpened, streamFails, cancelCalls, sent,
                 faults>>
  /\ UNCHANGED <<openStreams, messages, mcpVars, hostVars>>

\* task.ts:332  the loop goes on.
ContinueLoop ==
  /\ Running("loop", "record")
  /\ BatchRecorded
  /\ ~hasAttemptCompletion(toolCalls)
  /\ stack' = Call(Frame("loop", "entry", OpTaskStart, FALSE))
  /\ FreshLocals
  /\ UNCHANGED <<maxLoopCount, loopCount, isCancelled, isCompleted, fileChangeTracker,
                 abortController, history, events, retryAttempts,
                 streamsOpened, streamFails, cancelCalls, completedBy, sent,
                 taskCompletes, faults>>
  /\ UNCHANGED <<openStreams, messages, mcpVars, hostVars>>
\* --- Task.cancel (task.ts:404-412)
\* task.ts:405  a cancelled Task ignores cancel().
AlreadyCancelled == isCancelled

\* Mutant: cancel() also drops what the protocol clients wait for.
Cancel_DroppingRequests ==
  /\ Suspended
  /\ cancelCalls < MaxCancels
  /\ cancelCalls' = cancelCalls + 1
  /\ IF AlreadyCancelled
     THEN UNCHANGED <<isCancelled, isCompleted, fileChangeTracker, abortController, events,
                      completedBy, taskCompletes>>
     ELSE /\ isCancelled' = TRUE
          /\ abortController' = FALSE
          /\ completeTask("cancel", events)
  /\ UNCHANGED <<maxLoopCount, loopCount, history, stack, assistantContent,
                 nextTool, inFlight, results, recorded, retryAttempts,
                 streamsOpened, streamFails, sent, faults>>
  /\ client' = [c \in DOMAIN client |->
                  [client[c] EXCEPT !.pendingRequests = {}, !.timers = {}]]
  /\ UNCHANGED <<openStreams, messages, registry, hostVars>>

Cancel ==
  /\ Suspended
  /\ cancelCalls < MaxCancels
  /\ cancelCalls' = cancelCalls + 1
  /\ IF AlreadyCancelled
     THEN UNCHANGED <<isCancelled, isCompleted, fileChangeTracker, abortController, events,
                      completedBy, taskCompletes>>
     ELSE /\ isCancelled' = TRUE
          /\ abortController' = FALSE
          /\ completeTask("cancel", events)
  /\ UNCHANGED <<maxLoopCount, loopCount, history, stack, assistantContent,
                 nextTool, inFlight, results, recorded, retryAttempts,
                 streamsOpened, streamFails, sent, faults>>
  /\ UNCHANGED <<openStreams, messages, mcpVars, hostVars>>

Next ==
  \/ StartCollected
  \/ StartCollectFail
  \/ LoopCancelled
  \/ LoopLimit
  \/ LoopIterate
  \/ OpenStream
  \/ PromptFail
  \/ StreamChunk
  \/ StreamEnd
  \/ StreamFail
  \/ NoToolCalls
  \/ BeginTools
  \/ DispatchTool
  \/ ToolReturn
  \/ DispatchFail
  \/ ToolsDone
  \/ RecordResult
  \/ HistoryUpdateFail
  \/ CompletionRequested
  \/ ContinueLoop
  \/ RetryAfterDelay
  \/ Cancel

Spec == Init /\ [][Next]_vars
\* ================================================================== claims
\* The step opens a model stream.
OpensStream == streamsOpened' # streamsOpened
\* The step is the return of streamAssistantResponse.
StreamEnds ==
  /\ Running("loop", "streaming")
  /\ stack' # <<>>
  /\ Last(stack').pc = "post_stream"
\* The step posts a message of the type.
Posted(type) ==
  LET first == IF OpensStream \/ StreamEnds THEN 1 ELSE Len(events) + 1
  IN \E i \in first..Len(events') : events'[i].type = type
\* The step hands a tool invocation to the tool executor.
DispatchesTool == inFlight' \ inFlight # {}
\* start() has resolved.
Resolved == stack = <<>>

\* C1: for every cap N >= 1 a Task opens at most N model streams: loopCount
\* only grows, by one, and only on the way to the createMessage call; it
\* never exceeds maxLoopCount; no stream is opened without an increment; and
\* a loop entry at loopCount = N (the Task not cancelled) posts the
\* limit-exceeded notice, completes the Task and returns without a stream.
C1_IterationCap ==
  [][ /\ loopCount' >= loopCount
      /\ loopCount' <= maxLoopCount
      /\ maxLoopCount' = maxLoopCount
      /\ streamsOpened' <= loopCount'
      /\ loopCount' # loopCount =>
            /\ loopCount' = loopCount + 1
            /\ stack' # <<>>
            /\ Last(stack').fn = "loop"
            /\ Last(stack').pc = "prompt"
      /\ OpensStream =>
            /\ streamsOpened' = streamsOpened + 1
            /\ Running("loop", "prompt")
      /\ (Running("loop", "entry") /\ ~isCancelled /\ loopCount = maxLoopCount) =>
            /\ ~OpensStream
            /\ isCompleted'
            /\ stack' = <<>>
            /\ Len(events') = Len(events) + 2
            /\ events'[Len(events) + 1] = LimitNotice
            /\ events'[Len(events) + 2] = TaskComplete
    ]_vars

\* C1 witness: a Task with the largest cap used it up, stream by stream,
\* and was ended by the limit.
C1_Witness ==
  /\ Resolved
  /\ maxLoopCount = MaxCap
  /\ loopCount = maxLoopCount
  /\ streamsOpened = maxLoopCount
  /\ completedBy = "limit"

\* C2: cancel() is idempotent.  The Task is completed at most once and
\* posts at most one task_complete whatever the calls of cancel(); after a
\* call of cancel() the Task is completed with exactly one task_complete
\* posted; a call of cancel() on a cancelled Task changes nothing and posts
\* nothing.
C2_CancelIdempotent ==
  /\ [](taskCompletes <= 1)
  /\ [](cancelCalls > 0 => isCancelled /\ isCompleted /\ taskCompletes = 1)
  /\ [][ (cancelCalls' # cancelCalls /\ cancelCalls > 0) =>
            UNCHANGED <<maxLoopCount, loopCount, isCancelled, isCompleted,
                        fileChangeTracker, abortController, history, stack,
                        assistantContent,
                        nextTool, inFlight, results, recorded, events,
                        retryAttempts, streamsOpened, streamFails, completedBy,
                        sent, taskCompletes, faults>>
    ]_vars

\* C2 witness: cancel() was called twice on a running Task, which the
\* first call completed.
C2_Witness ==
  /\ cancelCalls = 2
  /\ completedBy = "cancel"
  /\ taskCompletes = 1
  /\ ~Resolved

\* C3: terminal states are absorbing.  Once completeTask has run, no step
\* opens a model stream, dispatches a tool or starts a loop iteration, and
\* the Task stays completed.
C3_TerminalAbsorbing ==
  [][ isCompleted =>
        /\ isCompleted'
        /\ ~OpensStream
        /\ ~DispatchesTool
        /\ loopCount' = loopCount
        /\ ~Posted("tool_call")
    ]_vars

\* C3 witness: the Task was completed (by cancel()) while the error handler
\* was waiting to retry: the retry then runs on a completed Task.
C3_Witness ==
  /\ isCompleted
  /\ stack # <<>>
  /\ Top.fn = "loop"
  /\ Top.pc = "entry"
  /\ Len(stack) >= 2
  /\ stack[Len(stack) - 1].fn = "handle"
\* The corrective instruction of task.ts:279.
Corrective == UserItem("noToolsUsed")
\* The messages the tool handler and the result loop post for a batch.
ToolEvents(type, calls) == [i \in 1..Len(calls) |-> Event(type, calls[i].name)]
\* The history items of the results of a batch.
ResultItems(rs) == [i \in 1..Len(rs) |-> ToolResultItem(rs[i])]

\* C4: with cap 1 a second model stream is never opened; and when the
\* reply of the one stream has no tool call (the corrective instruction was
\* pushed) and the Task is not cancelled, the Task ends with exactly one
\* stream opened, the reply and one corrective turn appended to the
\* history, and the limit-exceeded notice followed by task_complete as its
\* last messages.
C4_CapOneTextOnly ==
  maxLoopCount = 1 =>
    /\ streamsOpened <= 1
    /\ (Resolved /\ completedBy # "cancel" /\ Len(history) > 0
          /\ Last(history) = Corrective) =>
         /\ streamsOpened = 1
         /\ loopCount = 1
         /\ history = <<AssistantItem, Corrective>>
         /\ completedBy = "limit"
         /\ events = <<Event("stream_chunk", "final"), LimitNotice, TaskComplete>>
         /\ taskCompletes = 1

\* C4 witness: cap 1, one stream, a text-only reply, the corrective turn,
\* and the end by the limit.
C4_Witness ==
  /\ maxLoopCount = 1
  /\ Resolved
  /\ faults = 0
  /\ history = <<AssistantItem, Corrective>>
  /\ completedBy = "limit"

\* C5: a batch holding the completion tool is executed whole and in order
\* before the Task is completed by it.  While a batch is executed and
\* recorded the Task is not completed (unless cancel() did it); and when
\* the completion tool completes the Task, every invocation of the batch
\* has returned, in emission order, each result is in the history, the
\* tool_call and tool_result messages of all of them were posted before
\* task_complete, and start() has resolved with no further stream.
C5_CompletionAfterBatch ==
  /\ (Running("loop", "tools") \/ Running("loop", "record")) =>
       (isCompleted => isCancelled)
  /\ completedBy = "completion" =>
       /\ Resolved
       /\ hasAttemptCompletion(toolCalls)
       /\ Len(results) = Len(toolCalls)
       /\ \A i \in 1..Len(results) :
            /\ results[i].index = i
            /\ results[i].tool_name = toolCalls[i].name
       /\ history = <<AssistantItem>> \o ResultItems(results)
       /\ events = <<Event("stream_chunk", "final")>>
                      \o ToolEvents("tool_call", toolCalls)
                      \o ToolEvents("tool_result", toolCalls)
                      \o <<TaskComplete>>

\* C5 witness: the completion tool came first in a batch of two; the
\* second invocation was executed and recorded all the same.
C5_Witness ==
  /\ completedBy = "completion"
  /\ Len(toolCalls) = 2
  /\ toolCalls[1].name = AttemptCompletion
  /\ toolCalls[2].name = OtherTool
  /\ Len(results) = 2

\* C6: the invocations of a batch are executed one at a time, in emission
\* order: at most one execution is in flight, it is that of the invocation
\* after the last one that returned, and the results are in the order of
\* the invocations.
C6_SequentialDispatch ==
  /\ Cardinality(inFlight) <= 1
  /\ inFlight # {} => inFlight = {Len(results) + 1}
  /\ Len(results) <= Len(toolCalls)
  /\ \A i \in 1..Len(results) :
       /\ results[i].index = i
       /\ results[i].tool_name = toolCalls[i].name

\* C6 witness: the second invocation of a batch is executing, the first has
\* returned.
C6_Witness ==
  /\ Running("loop", "tools")
  /\ inFlight = {2}
  /\ Len(results) = 1

\* C7: the cancellation flag is read before each dispatch.  Once the Task
\* is cancelled no invocation is dispatched or announced and no loop
\* iteration starts; the invocation in flight at the time runs to its end
\* and, unless executeTool itself throws, its result is kept: when the for
\* loop is left, every dispatched invocation has its result.
C7_CancelStopsBatch ==
  /\ [](Running("loop", "record") => Len(results) = nextTool - 1)
  /\ [][ isCancelled =>
            /\ ~DispatchesTool
            /\ nextTool' <= nextTool
            /\ ~Posted("tool_call")
            /\ loopCount' = loopCount
            /\ ~OpensStream
            /\ (inFlight # {} /\ inFlight' = {} /\ faults' = faults) =>
                  /\ Len(results') = Len(results) + 1
                  /\ Last(results').index \in inFlight
    ]_vars

\* C7 witness: cancel() came while the first of two invocations was
\* executing; its result was returned, the second was never dispatched.
C7_Witness ==
  /\ isCancelled
  /\ Running("loop", "record")
  /\ Len(toolCalls) = 2
  /\ Len(results) = 1
  /\ nextTool = 2

\* C8: a retryable failure of the model turn is retried once, and a model
\* endpoint that fails on every call is called at most twice for the turn:
\* after two model streams in a row have failed, no further stream is open.
C8_RetriedOnce ==
  streamFails >= 2 => ~Running("loop", "streaming")

\* C9: no failure raised in start() or in the loop reaches the caller.  The
\* step that catches a failure posts an error notice, and it leaves either
\* the error handler waiting to retry or start() resolved; whenever start()
\* has resolved the Task is completed and exactly one task_complete has
\* been posted, after the error notice when the error handler ended it.
C9_FailuresContained ==
  /\ [](Resolved => isCompleted /\ taskCompletes = 1)
  /\ [](completedBy = "error" =>
          /\ Resolved
          /\ Len(events) >= 2
          /\ events[Len(events) - 1] = ErrorNotice
          /\ Last(events) = TaskComplete)
  /\ [][ faults' > faults =>
            /\ faults' = faults + 1
            /\ Posted("error")
            /\ \/ stack' = <<>> /\ isCompleted'
               \/ /\ stack' # <<>>
                  /\ Last(stack').fn = "handle"
                  /\ Last(stack').pc = "delay"
    ]_vars

\* C9 witness: a failure was retried, the retry failed as well, and the
\* error handler ended the Task; start() has resolved.
C9_Witness ==
  /\ Resolved
  /\ faults >= 2
  /\ completedBy = "error"
  /\ taskCompletes = 1

\* C10: a tool execution that fails does not end the Task.  Its return is
\* not a failure of the loop; its result is recorded in the history with
\* the error flag; from a recorded batch without the completion tool the
\* loop goes on whatever the flags of the results; and the next model call
\* is handed each result as a user message whose text starts with
\* [TOOL ERROR: name] when the flag is set and [TOOL RESULT: name] when not.
C10_ToolErrorFedBack ==
  [][ /\ Len(results') > Len(results) =>
            /\ stack' = stack
            /\ isCompleted' = isCompleted
            /\ faults' = faults
            /\ ~Posted("error")
      /\ recorded' = recorded + 1 =>
            /\ Len(history') = Len(history) + 1
            /\ Last(history').role = "tool_result"
            /\ Last(history').tool_name = results[recorded'].tool_name
            /\ Last(history').is_error = results[recorded'].is_error
      /\ ( /\ Running("loop", "record")
           /\ recorded = Len(results)
           /\ ~hasAttemptCompletion(toolCalls)
           /\ stack' # stack ) =>
            /\ Len(stack') = Len(stack) + 1
            /\ Last(stack').fn = "loop"
            /\ Last(stack').pc = "entry"
            /\ isCompleted' = isCompleted
            /\ history' = history
      /\ OpensStream =>
            /\ Len(sent') = Len(history)
            /\ \A i \in 1..Len(history) :
                 history[i].role = "tool_result" =>
                   /\ sent'[i].role = "user"
                   /\ sent'[i].tool_name = history[i].tool_name
                   /\ sent'[i].text = IF history[i].is_error
                                      THEN "[TOOL ERROR: name]"
                                      ELSE "[TOOL RESULT: name]"
    ]_vars

\* C10 witness: the model is being called, on a Task that is not completed,
\* with the text of a failed tool result among the new messages.
C10_Witness ==
  /\ Running("loop", "streaming")
  /\ ~isCompleted
  /\ \E i \in 1..Len(sent) :
       /\ sent[i].text = "[TOOL ERROR: name]"
       /\ sent[i].tool_name = OtherTool

\* The model streams that are outstanding.
OutstandingStreams == openStreams

\* C11: at most one model stream of a Task is outstanding at any time, and
\* a stream is opened only when none is outstanding: the call that opened a
\* stream does nothing else until that stream has finished or failed,
\* whether the next call comes from the loop, from the corrective turn or
\* from the retry of the error handler.
C11_OneStreamOutstanding ==
  /\ [](OutstandingStreams \in {0, 1})
  /\ [](OutstandingStreams = 1 <=> Running("loop", "streaming"))
  /\ [][OpensStream => OutstandingStreams = 0 /\ OutstandingStreams' = 1]_vars

\* C11 witness: the stream of the error handler's retry is open, after the
\* stream before it failed and a corrective turn was sent earlier.
C11_Witness ==
  /\ Running("loop", "streaming")
  /\ OutstandingStreams = 1
  /\ streamsOpened = 3
  /\ streamFails = 1
  /\ Len(stack) >= 4
  /\ \E i \in 1..Len(stack) : stack[i].fn = "handle"

\* =============================================================== MCPClient
\* The instances that exist.
Live == 1..registry.created

\* A request whose promise has settled and whose awaiting code has gone on:
\* nothing reads its outcome any more; only the number of calls of its
\* callbacks is kept.
Settled(r) == [NoRequest EXCEPT !.outcome = "settled", !.settles = r.settles]

\* The locals of a connect() call are read for the last time when its grace
\* window ends (part_008:169-170); after that only its position is kept,
\* and once the call has returned or thrown only that it is over.
PastGrace(f) ==
  [NoConnect EXCEPT !.pc = IF f.pc \in {"done", "failed"} THEN "over" ELSE f.pc]

\* What every step starts with: the record of what the step before did
\* (what it published, wrote, called, handled and settled) is dropped.
begin(cl) ==
  [cl EXCEPT !.published = <<cl.status>>,
             !.written = <<>>,
             !.lastCall = NoCall,
             !.lastMessage = NoMessage,
             !.reported = <<>>,
             !.requests = [i \in DOMAIN cl.requests |->
                             IF cl.requests[i].outcome \in {"none", "pending"}
                             THEN cl.requests[i] ELSE Settled(cl.requests[i])],
             !.connects = [k \in DOMAIN cl.connects |->
                             IF cl.connects[k].pc = "grace"
                             THEN cl.connects[k] ELSE PastGrace(cl.connects[k])]]

\* MCPClient.setStatus: the status is set and the state published.
setStatus(cl, status, error) ==
  [cl EXCEPT !.status = status, !.error = error, !.published = Append(@, status),
             !.reported = IF status = "error" THEN Append(@, error) ELSE @]

\* A promise callback (resolve or reject) of request id is called.  The
\* promise settles on the first call, which queues the reaction of the
\* code that awaits it.
Settle(cl, id, outcome, reason, value) ==
  LET first == cl.requests[id].outcome = "pending"
  IN [cl EXCEPT !.requests[id].outcome = IF first THEN outcome ELSE @,
                !.requests[id].reason = IF first THEN reason ELSE @,
                !.requests[id].value = IF first THEN value ELSE @,
                !.requests[id].settles = @ + 1,
                !.jobs = IF first THEN Append(@, id) ELSE @]

\* Mutant: the timer of a removed entry is left armed.
ClearTimeout_Forgotten(timers, id) == timers

\* clearTimeout(pending.timeout)
ClearTimeout(timers, id) == timers \ {id}

Min(S) == CHOOSE x \in S : \A y \in S : x <= y

\* Mutant: the pending entries are dropped without being rejected.
RejectPending_Dropped(cl) == [cl EXCEPT !.pendingRequests = {}, !.timers = {}]

\* part_008:205-209  every pending request is rejected, in the order of the
\* map (the order of sending).
RECURSIVE RejectPending(_)
RejectPending(cl) ==
  IF cl.pendingRequests = {} THEN cl
  ELSE LET id == Min(cl.pendingRequests)
       IN RejectPending(
            Settle([cl EXCEPT !.timers = ClearTimeout(@, id),
                              !.pendingRequests = @ \ {id}],
                   id, "rejected", Msg("Client disconnected", ""), {}))

\* part_008:199-202  the subprocess is killed and the reference dropped.
KillProcess(cl) ==
  IF cl.process # 0
  THEN [cl EXCEPT !.procs[cl.process] = IF @ = "running" THEN "killed" ELSE @,
                  !.process = 0]
  ELSE cl

\* MCPClient.disconnect
disconnect(cl) ==
  setStatus([RejectPending(KillProcess(cl)) EXCEPT !.tools = {}, !.buffer = ""],
            "disconnected", NoError)

\* MCPClient.handleDisconnect
handleDisconnect(cl) ==
  IF cl.status # "disconnected" THEN disconnect(cl) ELSE cl

\* part_008:275  sendRequest throws unless there is a subprocess to write to.
CanSend(cl) == cl.process # 0

\* Mutant: the id counter starts again when no request is pending.
NextRequestId_Restart(cl) ==
  IF cl.pendingRequests = {} THEN 1 ELSE cl.requestId + 1

\* part_008:279  ++this.requestId
NextRequestId(cl) == cl.requestId + 1

\* What is written to the stdin of the subprocess.
Written(cl, method, id) == [to |-> cl.process, method |-> method, id |-> id]

\* MCPClient.sendRequest (part_008:279-301), for the connect() call `by`
\* (0: for callTool).
sendRequest(cl, method, by) ==
  LET id == NextRequestId(cl)
  IN [cl EXCEPT !.requestId = id,
                !.timers = @ \cup {id},
                !.pendingRequests = @ \cup {id},
                !.requests[id] = [NoRequest EXCEPT !.method = method, !.by = by,
                                                   !.outcome = "pending"],
                !.written = Append(@, Written(cl, method, id))]

\* part_008:183-192  the catch of connect(): error is published, the client
\* disconnects, connect() rejects.
connectCatch(cl, k, message) ==
  [disconnect(setStatus(cl, "error", message))
     EXCEPT !.connects[k].pc = "failed", !.connects[k].failure = message]

NotConnected == Msg("Not connected to MCP server", "")

\* part_008:174, 307-319  initialize() sends its request.
connectInitialize(cl, k) ==
  IF CanSend(cl)
  THEN [sendRequest(cl, "initialize", k) EXCEPT !.connects[k].pc = "initialize"]
  ELSE connectCatch(cl, k, NotConnected)

\* Mutant: the initialized notification is sent the way requests are.
connectInitialized_AsRequest(cl, k) ==
  IF cl.process = 0 THEN connectCatch(cl, k, Msg("TypeError", ""))
  ELSE [sendRequest(sendRequest(cl, "notifications/initialized", k), "tools/list", k)
          EXCEPT !.connects[k].pc = "listTools"]

\* part_008:321-337  initialize() got its answer: the initialized
\* notification is written and listTools() sends its request.
connectInitialized(cl, k) ==
  IF cl.process = 0 THEN connectCatch(cl, k, Msg("TypeError", ""))
  ELSE LET notified ==
             [cl EXCEPT !.written = Append(@, Written(cl, "notifications/initialized", 0))]
       IN [sendRequest(notified, "tools/list", k) EXCEPT !.connects[k].pc = "listTools"]

\* part_008:338, 179  listTools() got its answer: the catalog is stored and
\* connected is published.
connectListed(cl, k, tools) ==
  [setStatus([cl EXCEPT !.tools = tools], "connected", NoError)
     EXCEPT !.connects[k].pc = "done"]

\* part_008:363-372  callTool after its await: the content of the result is
\* returned, a rejection is thrown on.
callToolReturn(cl, r) ==
  IF r.outcome = "resolved"
  THEN [cl EXCEPT !.lastCall = [NoCall EXCEPT !.outcome = "returned", !.value = r.value]]
  ELSE [cl EXCEPT !.lastCall = [NoCall EXCEPT !.outcome = "threw"]]

\* The reaction to the settling of request id: the code that awaits it goes
\* on.
Resume(cl, id) ==
  LET r == cl.requests[id]
  IN CASE r.method = "initialize" ->
            IF r.outcome = "resolved" THEN connectInitialized(cl, r.by)
            ELSE connectCatch(cl, r.by, r.reason)
       [] r.method = "tools/list" ->
            IF r.outcome = "resolved" THEN connectListed(cl, r.by, r.value)
            ELSE connectCatch(cl, r.by, r.reason)
       [] OTHER -> callToolReturn(cl, r)

\* The queued promise reactions run, in order, before anything else happens.
RECURSIVE RunJobs(_)
RunJobs(cl) ==
  IF cl.jobs = <<>> THEN cl
  ELSE RunJobs(Resume([cl EXCEPT !.jobs = Tail(@)], Head(cl.jobs)))

\* The counter of request ids is capped at MaxRequests: a step that would
\* send when the cap is reached is not taken.
RoomToSend(cl) == cl.requestId < MaxRequests

\* The places for a new subprocess: those never used, and those of a
\* subprocess from which no event can come any more (it exited, or failed
\* and will not report an exit) whose connect() call is over.
FreeSlots(cl) ==
  {k \in DOMAIN cl.procs :
     /\ cl.procs[k] \in {"none", "gone", "errored"}
     /\ cl.connects[k].pc \in {"none", "over"}}

\* MCPClient.connect up to its first await (part_008:102-167): nothing when
\* connected or connecting; else connecting is published, the subprocess
\* spawned and its handlers installed.
connect(cl) ==
  IF cl.status \in {"connected", "connecting"} THEN cl
  ELSE LET k == Min(FreeSlots(cl))
       IN [setStatus(cl, "connecting", NoError)
             EXCEPT !.process = k, !.procs[k] = "running",
                    !.connects[k] = [NoConnect EXCEPT !.pc = "grace"]]

\* The host calls connect().
Connect(c) ==
  /\ c \in Live
  /\ client[c].status \notin {"connected", "connecting"} =>
       FreeSlots(begin(client[c])) # {}
  /\ client' = [client EXCEPT ![c] = RunJobs(connect(begin(@)))]
  /\ UNCHANGED <<vars, registry, hostVars>>

\* part_008:134-138  subprocess k writes to its diagnostic stream, while
\* connect() call k can still read what is collected (part_008:147-153).
Stderr(c, k) ==
  /\ c \in Live
  /\ client[c].procs[k] \in {"running", "killed"}
  /\ client[c].connects[k].pc = "grace"
  /\ client[c].connects[k].stderrOutput = ""
  /\ client' = [client EXCEPT ![c] =
                  [begin(@) EXCEPT !.connects[k].stderrOutput = "diagnostic"]]
  /\ UNCHANGED <<vars, registry, hostVars>>

\* The exit codes of a subprocess: 0, or anything else (a code, or null
\* when a signal ended it).
ExitCodes == {"0", "1"}

\* part_008:147-153  the error of an early exit quotes the diagnostic output.
ExitMessage(stderrOutput) == Msg("MCP server process exited", stderrOutput)

\* part_008:141-156  the exit handler that connect() call k installed.
onExit(cl, k, code) ==
  handleDisconnect(
    [cl EXCEPT !.procs[k] = "gone",
               !.connects[k].processExited = TRUE,
               !.connects[k].exitCode = IF cl.connects[k].pc = "grace" THEN code ELSE @,
               !.connects[k].exitError =
                  IF code # "0" /\ cl.status = "connecting"
                  THEN ExitMessage(cl.connects[k].stderrOutput) ELSE @])

\* The exit event of subprocess k is delivered.
ProcessExit(c, k) ==
  /\ c \in Live
  /\ client[c].procs[k] \in {"running", "killed", "errored"}
  /\ \E code \in ExitCodes :
       client' = [client EXCEPT ![c] = RunJobs(onExit(begin(@), k, code))]
  /\ UNCHANGED <<vars, registry, hostVars>>

\* part_008:159-164  the error handler that connect() call k installed.
onError(cl, k) ==
  setStatus([cl EXCEPT !.procs[k] = "errored",
                       !.connects[k].processExited = TRUE,
                       !.connects[k].exitError = Msg("spawn error", "")],
            "error", Msg("spawn error", ""))

\* The error event of subprocess k is delivered: it could not be spawned
\* (reported right after the spawn, within the grace window of connect()
\* call k), or it could not be killed.
ProcessError(c, k) ==
  /\ c \in Live
  /\ \/ client[c].procs[k] = "running" /\ client[c].connects[k].pc = "grace"
     \/ client[c].procs[k] = "killed"
  /\ client' = [client EXCEPT ![c] = RunJobs(onError(begin(@), k))]
  /\ UNCHANGED <<vars, registry, hostVars>>

\* Mutant: connect() goes on to the handshake without looking at what the
\* handlers recorded.
afterGrace_Unchecked(cl, k) == connectInitialize(cl, k)

\* part_008:167-174  after the grace window connect() call k fails when its
\* subprocess exited or failed, and starts the handshake otherwise.
afterGrace(cl, k) ==
  LET f == cl.connects[k]
  IN IF f.processExited \/ f.exitError # NoError
     THEN connectCatch(cl, k, IF f.exitError # NoError THEN f.exitError
                              ELSE Msg("Process exited unexpectedly", ""))
     ELSE connectInitialize(cl, k)

\* The 500 ms timer of connect() call k fires.
GraceElapsed(c, k) ==
  /\ c \in Live
  /\ client[c].connects[k].pc = "grace"
  /\ afterGrace(client[c], k).requestId # client[c].requestId => RoomToSend(client[c])
  /\ client' = [client EXCEPT ![c] = RunJobs(afterGrace(begin(@), k))]
  /\ UNCHANGED <<vars, registry, hostVars>>

\* The result member of a response, reduced to the names it holds (the
\* tools of a tools/list result, the content of a tools/call result).
Payloads == {{}, {"search"}}

Max(S) == CHOOSE x \in S : \A y \in S : x >= y

\* The ids a response may carry besides those of the pending requests: the
\* id of the latest request that is no longer pending (a late response),
\* and an id that was not sent yet.
StrayIds(cl) ==
  LET old == {i \in 1..cl.requestId : i \notin cl.pendingRequests}
  IN (IF old = {} THEN {} ELSE {Max(old)}) \cup {cl.requestId + 1}

Response(id, error, result) ==
  [kind |-> "response", id |-> id, error |-> error, result |-> result]

\* The messages a subprocess may send: a notification; for each pending
\* request an error response and a response with a result (the result of
\* initialize is only logged: one stands for all); responses with the id of
\* no pending request.
Messages(cl) ==
  {[kind |-> "notification", id |-> 0, error |-> FALSE, result |-> {}]}
    \cup {Response(i, TRUE, {}) : i \in cl.pendingRequests \cup StrayIds(cl)}
    \cup {Response(i, FALSE, {}) : i \in StrayIds(cl)}
    \cup UNION {{Response(i, FALSE, r) :
                   r \in IF cl.requests[i].method = "initialize" THEN {{}}
                         ELSE Payloads} : i \in cl.pendingRequests}

\* The record of the message a step handled: its kind and id, and its
\* error and result members when it is the response to a pending request.
Handled(cl, m) ==
  IF m.id \in cl.pendingRequests THEN m
  ELSE [NoMessage EXCEPT !.kind = m.kind, !.id = m.id]

\* Mutant: a response is matched to the oldest pending request, whatever
\* its id.
PendingFor_AnyId(cl, m) ==
  IF m.kind = "response" /\ cl.pendingRequests # {}
  THEN {Min(cl.pendingRequests)} ELSE {}

\* part_008:252-255  the pending entry of a message: that of its id, when it
\* has an id and a request with that id is pending.
PendingFor(cl, m) ==
  IF m.kind = "response" THEN {m.id} \cap cl.pendingRequests ELSE {}

\* MCPClient.handleMessage
handleMessage(cl, m) ==
  LET seen == [cl EXCEPT !.lastMessage = Handled(cl, m)]
      found == PendingFor(cl, m)
  IN IF found # {}
     THEN LET id == CHOOSE i \in found : TRUE
              taken == [seen EXCEPT !.timers = ClearTimeout(@, id),
                                    !.pendingRequests = @ \ {id}]
          IN IF m.error
             THEN Settle(taken, id, "rejected", Msg("server error", ""), {})
             ELSE Settle(taken, id, "resolved", NoError, m.result)
     ELSE seen

\* part_008:129-131, 226-246  a chunk of output that ends with a newline
\* arrives: the line it completes is decoded and handled, nothing stays
\* buffered.
LineArrives(c) ==
  /\ c \in Live
  /\ \E k \in DOMAIN client[c].procs : client[c].procs[k] # "none"
  /\ \E m \in Messages(client[c]) :
       /\ (m.id \in client[c].pendingRequests /\ ~m.error
             /\ client[c].requests[m.id].method = "initialize")
            => RoomToSend(client[c])
       /\ client' = [client EXCEPT ![c] =
                       RunJobs(handleMessage([begin(@) EXCEPT !.buffer = ""], m))]
  /\ UNCHANGED <<vars, registry, hostVars>>

\* part_008:227-231  a chunk of output without a newline arrives.
PartialArrives(c) ==
  /\ c \in Live
  /\ \E k \in DOMAIN client[c].procs : client[c].procs[k] # "none"
  /\ client' = [client EXCEPT ![c] = [begin(@) EXCEPT !.buffer = "partial"]]
  /\ UNCHANGED <<vars, registry, hostVars>>

\* part_008:288-291  the timer of a request fires.
onTimeout(cl, id) ==
  Settle([cl EXCEPT !.timers = @ \ {id}, !.pendingRequests = @ \ {id}],
         id, "rejected", Msg("Request timeout", ""), {})

RequestTimeout(c) ==
  /\ c \in Live
  /\ \E id \in client[c].timers :
       client' = [client EXCEPT ![c] = RunJobs(onTimeout(begin(@), id))]
  /\ UNCHANGED <<vars, registry, hostVars>>

\* Mutant: disconnect() works on state that all the clients share.
Disconnect_All(c) ==
  /\ c \in Live
  /\ client' = [d \in DOMAIN client |-> RunJobs(disconnect(begin(client[d])))]
  /\ UNCHANGED <<vars, registry, hostVars>>

\* The host calls disconnect().
Disconnect(c) ==
  /\ c \in Live
  /\ client' = [client EXCEPT ![c] = RunJobs(disconnect(begin(@)))]
  /\ UNCHANGED <<vars, registry, hostVars>>

\* Mutant: callTool does not look the tool up in the catalog.
ToolKnown_Unchecked(cl, name) == TRUE

\* part_008:352-353  the tool is in the discovered catalog.
ToolKnown(cl, name) == name \in cl.tools

\* MCPClient.callTool up to its await.
callTool(cl, name) ==
  IF cl.status # "connected"
  THEN [cl EXCEPT !.lastCall = [NoCall EXCEPT !.name = name, !.outcome = "not connected"]]
  ELSE IF ~ToolKnown(cl, name)
  THEN [cl EXCEPT !.lastCall = [NoCall EXCEPT !.name = name, !.outcome = "not found"]]
  ELSE IF ~CanSend(cl)
  THEN [cl EXCEPT !.lastCall = [NoCall EXCEPT !.name = name, !.outcome = "no process"]]
  ELSE [sendRequest(cl, "tools/call", 0)
          EXCEPT !.lastCall = [NoCall EXCEPT !.name = name, !.outcome = "sent"]]

\* The host calls callTool(name, args).
CallTool(c) ==
  /\ c \in Live
  /\ RoomToSend(client[c])
  /\ \E name \in ToolUniverse :
       client' = [client EXCEPT ![c] = RunJobs(callTool(begin(@), name))]
  /\ UNCHANGED <<vars, registry, hostVars>>

\* One MCPClient, made by its host.
McpInit ==
  /\ TaskFields
  /\ HostUnused
  /\ maxLoopCount = 1
  /\ client = <<NewClient>>
  /\ registry = [NewRegistry EXCEPT !.created = 1]

McpNext ==
  \/ \E c \in Clients : Connect(c)
  \/ \E c \in Clients, k \in 1..MaxProcs : Stderr(c, k)
  \/ \E c \in Clients, k \in 1..MaxProcs : ProcessExit(c, k)
  \/ \E c \in Clients, k \in 1..MaxProcs : ProcessError(c, k)
  \/ \E c \in Clients, k \in 1..MaxProcs : GraceElapsed(c, k)
  \/ \E c \in Clients : LineArrives(c)
  \/ \E c \in Clients : PartialArrives(c)
  \/ \E c \in Clients : RequestTimeout(c)
  \/ \E c \in Clients : Disconnect(c)
  \/ \E c \in Clients : CallTool(c)

McpSpec == McpInit /\ [][McpNext]_<<vars, mcpVars, hostVars>>

\* ------------------------------------------------------- MCPClient: claims
\* The ids of the requests in a sequence of writes (a notification is
\* written without id: 0 here), in the order of writing.
RECURSIVE SentIds(_)
SentIds(w) ==
  IF w = <<>> THEN <<>>
  ELSE IF Head(w).id = 0 THEN SentIds(Tail(w))
  ELSE <<Head(w).id>> \o SentIds(Tail(w))

\* C12: within the lifetime of one MCPClient the ids of the requests it
\* sends are pairwise distinct and strictly increasing in the order of
\* sending, across connect, request, timeout, disconnect and reconnect: the
\* requests a step writes carry the ids that follow the counter of before
\* the step, one by one, and the counter ends at the last of them; it never
\* goes back.
C12_RequestIdsIncrease ==
  [][\A c \in DOMAIN client :
       LET ids == SentIds(client'[c].written)
       IN /\ \A i \in 1..Len(ids) : ids[i] = client[c].requestId + i
          /\ client'[c].requestId = client[c].requestId + Len(ids)]_<<vars, mcpVars, hostVars>>

\* C12 witness: a client that connected and was disconnected sends the
\* initialize request of its next connect() with the id after those it
\* used before.
C12_Witness ==
  \E c \in DOMAIN client :
    /\ SentIds(client[c].written) = <<3>>
    /\ client[c].written[1].method = "initialize"
    /\ client[c].requests[2].outcome = "settled"
    /\ client[c].pendingRequests = {3}

\* A message that is a notification, or a response whose id is the id of no
\* pending request of cl.
Unmatched(cl, m) ==
  \/ m.kind = "notification"
  \/ m.kind = "response" /\ m.id \notin cl.pendingRequests

\* C13: a decoded message whose id matches no pending entry, and any
\* notification, leaves the pending requests (and their timers), the status
\* and the tool catalog as they were, settles no request, publishes nothing
\* and records no error.
C13_UnmatchedMessageIgnored ==
  [][\A c \in DOMAIN client :
       Unmatched(client[c], client'[c].lastMessage) =>
         /\ client'[c].pendingRequests = client[c].pendingRequests
         /\ client'[c].timers = client[c].timers
         /\ client'[c].status = client[c].status
         /\ client'[c].tools = client[c].tools
         /\ client'[c].error = client[c].error
         /\ client'[c].requests = begin(client[c]).requests
         /\ client'[c].published = <<client[c].status>>
         /\ client'[c].jobs = <<>>]_<<vars, mcpVars, hostVars>>

\* C13 witness: while a request of the handshake is pending, a response
\* with the id of a request settled earlier has been handled.
C13_Witness ==
  \E c \in DOMAIN client :
    LET m == client[c].lastMessage
    IN /\ m.kind = "response"
       /\ m.id \in DOMAIN client[c].requests
       /\ client[c].requests[m.id].outcome = "settled"
       /\ client[c].pendingRequests # {}
       /\ m.id \notin client[c].pendingRequests
       /\ client[c].status = "connecting"

\* C14: every request is settled exactly once under any interleaving of
\* responses, timeouts and disconnects: a request is pending exactly while
\* its promise has not settled, and then neither callback was called; its
\* timer is armed exactly while it is pending, so no timeout fires for a
\* request that was resolved, rejected or removed; once it left the pending
\* set exactly one call of a callback was made for it, whatever arrives
\* later; a request rejected by its timeout is out of the pending set.
C14_SettledExactlyOnce ==
  \A c \in DOMAIN client : \A id \in DOMAIN client[c].requests :
    LET r == client[c].requests[id]
    IN /\ r.settles <= 1
       /\ id \in client[c].pendingRequests <=> r.outcome = "pending"
       /\ id \in client[c].timers <=> id \in client[c].pendingRequests
       /\ r.outcome \in {"none", "pending"} => r.settles = 0
       /\ r.outcome \in {"resolved", "rejected", "settled"} => r.settles = 1
       /\ r.outcome = "none" <=> id > client[c].requestId

\* C14 witness: one of two pending tools/call requests has just been
\* rejected by its timeout; the other is still pending.
C14_Witness ==
  \E c \in DOMAIN client : \E id, other \in DOMAIN client[c].requests :
    /\ client[c].requests[id].method = "tools/call"
    /\ client[c].requests[id].outcome = "rejected"
    /\ client[c].requests[id].reason = Msg("Request timeout", "")
    /\ client[c].requests[id].settles = 1
    /\ other \in client[c].pendingRequests
    /\ client[c].requests[other].method = "tools/call"

\* The step that led to the state of cl called disconnect(), last of all
\* that it published.
JustDisconnected(cl) ==
  Len(cl.published) > 1 /\ cl.published[Len(cl.published)] = "disconnected"

\* What disconnect() leaves behind.
Released(cl) ==
  /\ cl.pendingRequests = {}
  /\ cl.timers = {}
  /\ cl.tools = {}
  /\ cl.buffer = ""
  /\ cl.process = 0
  /\ cl.status = "disconnected"

\* C15: after disconnect(), called by the host in any state of the client
\* or by the exit handler, every request that was pending has been rejected
\* (once) with the disconnection error, the pending set, the tool catalog
\* and the input buffer are empty, the subprocess reference is released and
\* the status is disconnected; and this is still so when the step that
\* disconnected is over.
C15_DisconnectReleases ==
  \A c \in DOMAIN client :
    LET before == begin(client[c])
        after == disconnect(before)
    IN /\ Released(after)
       /\ \A id \in before.pendingRequests :
            /\ after.requests[id].outcome = "rejected"
            /\ after.requests[id].reason = Msg("Client disconnected", "")
            /\ after.requests[id].settles = 1
       /\ after.published[Len(after.published)] = "disconnected"
       /\ JustDisconnected(client[c]) => Released(client[c])

\* C15 witness: a connected client with a pending tools/call request has
\* been disconnected by the exit of its subprocess.
C15_Witness ==
  \E c \in DOMAIN client : \E id \in DOMAIN client[c].requests :
    /\ client[c].published = <<"connected", "disconnected">>
    /\ client[c].requests[id].method = "tools/call"
    /\ client[c].requests[id].outcome = "rejected"
    /\ client[c].requests[id].reason = Msg("Client disconnected", "")
    /\ \E k \in DOMAIN client[c].procs : client[c].procs[k] = "gone"
    /\ Released(client[c])

\* C16: every status change a client publishes follows an edge of
\* disconnected -> connecting -> {connected, error} -> disconnected, with
\* error -> connecting: of the statuses one step publishes, each differs
\* from the one before it (the first: from the status in force before the
\* step) only along an edge.
C16_PublishedFollowEdges ==
  \A c \in DOMAIN client : \A i \in 1..(Len(client[c].published) - 1) :
    \/ client[c].published[i + 1] = client[c].published[i]
    \/ <<client[c].published[i], client[c].published[i + 1]>> \in
         {<<"disconnected", "connecting">>, <<"connecting", "connected">>,
          <<"connecting", "error">>, <<"connected", "disconnected">>,
          <<"error", "disconnected">>, <<"error", "connecting">>}

\* The step that led to the state of cl published connected.
PublishedConnected(cl) ==
  \E i \in 2..Len(cl.published) : cl.published[i] = "connected"

\* The step that led to the state of cl handled the successful response to
\* a request of the given method.
Answered(cl, method) ==
  /\ cl.lastMessage.kind = "response"
  /\ ~cl.lastMessage.error
  /\ cl.lastMessage.id \in DOMAIN cl.requests
  /\ cl.requests[cl.lastMessage.id].method = method
  /\ cl.requests[cl.lastMessage.id].outcome = "resolved"

\* C17: a client publishes connected only in the step that handles the
\* successful answer to a tools/list request, with the tools of that answer
\* stored as its catalog; a tools/list request is written only in the step
\* that handles the successful answer to an initialize request, and right
\* after the initialized notification; the notification is written nowhere
\* else, carries no id and has no pending entry: the step that writes both
\* consumes one id, that of the tools/list request, and the pending set
\* changes by the answered initialize request and that one only.
C17_ConnectedAfterHandshake ==
  /\ [](\A c \in DOMAIN client :
          LET cl == client[c]
          IN /\ PublishedConnected(cl) =>
                  /\ Answered(cl, "tools/list")
                  /\ cl.tools = cl.lastMessage.result
                  /\ cl.status = "connected"
             /\ (\E i \in 1..Len(cl.written) :
                    cl.written[i].method \in {"tools/list", "notifications/initialized"}) =>
                  /\ Answered(cl, "initialize")
                  /\ Len(cl.written) = 2
                  /\ cl.written[1].method = "notifications/initialized"
                  /\ cl.written[1].id = 0
                  /\ cl.written[2].method = "tools/list"
                  /\ cl.written[2].id = cl.requestId
                  /\ cl.requests[cl.requestId].method = "tools/list"
             /\ 0 \notin cl.pendingRequests)
  /\ [][\A c \in DOMAIN client :
          Answered(client'[c], "initialize") /\ client'[c].written # <<>> =>
            /\ client'[c].requestId = client[c].requestId + 1
            /\ client'[c].pendingRequests =
                 (client[c].pendingRequests \ {client'[c].lastMessage.id})
                   \cup {client'[c].requestId}]_<<vars, mcpVars, hostVars>>

\* C17 witness: connected has been published with a catalog of one tool,
\* by the handshake of a reconnect (its tools/list request has id 4).
C17_Witness ==
  \E c \in DOMAIN client :
    /\ client[c].published = <<"connecting", "connected">>
    /\ Answered(client[c], "tools/list")
    /\ client[c].lastMessage.id = 4
    /\ client[c].tools = {"search"}

\* The exit handler of connect() call f ran during the grace window of the
\* call, with a nonzero code, while the client was connecting.
ExitedEarly(f) ==
  /\ f.pc = "grace"
  /\ f.exitCode = "1"
  /\ f.exitError.text = "MCP server process exited"

\* C18: when the subprocess of a connect() call exits with a nonzero code
\* inside the grace window of the call, the client still connecting, the
\* error the exit handler records quotes the diagnostic output captured
\* until then, and writes nothing; and when the grace window ends the call
\* fails with that error, without writing an initialize request (or
\* anything else) and without consuming a request id, and a snapshot with
\* status error and that error's message is published.
C18_EarlyExitFailsConnect ==
  [][\A c \in DOMAIN client : \A k \in 1..MaxProcs :
       LET f == client[c].connects[k]
           g == client'[c].connects[k]
       IN /\ (/\ f.pc = "grace" /\ ~f.processExited
              /\ client[c].procs[k] = "running"
              /\ client[c].status = "connecting"
              /\ g.exitCode = "1") =>
               /\ ExitedEarly(g)
               /\ g.exitError.diag = f.stderrOutput
               /\ client'[c].written = <<>>
          /\ (ExitedEarly(f) /\ g.pc # "grace") =>
               /\ g.pc = "failed"
               /\ g.failure.text = "MCP server process exited"
               /\ g.failure.diag = f.stderrOutput
               /\ client'[c].written = <<>>
               /\ client'[c].requestId = client[c].requestId
               /\ \E i \in 2..Len(client'[c].published) :
                    client'[c].published[i] = "error"
               /\ \E i \in 1..Len(client'[c].reported) :
                    client'[c].reported[i] = g.failure]_<<vars, mcpVars, hostVars>>

\* C18 witness: connect() has failed after the grace window with the error
\* of an early exit that quotes the diagnostic output; no request was ever
\* sent.
C18_Witness ==
  \E c \in DOMAIN client : \E k \in 1..MaxProcs :
    /\ client[c].connects[k].pc = "failed"
    /\ client[c].connects[k].exitCode = "1"
    /\ client[c].connects[k].failure = Msg("MCP server process exited", "diagnostic")
    /\ client[c].reported = <<client[c].connects[k].failure>>
    /\ client[c].requestId = 0
    /\ client[c].procs[k] = "gone"

\* C19: callTool(name, args) throws before its first await when the status
\* is not connected or name is not in the catalog, and then nothing is
\* written to the subprocess, the id counter, the pending set and its
\* timers stay as they were and no request is made; a call that sends is
\* made connected and with a name of the catalog; and a callTool that
\* returns returns the payload of the response just handled for its
\* tools/call request, as it came.
C19_CallToolFailsFast ==
  [][\A c \in DOMAIN client :
       LET call == client'[c].lastCall
       IN /\ (/\ call.outcome \in {"not connected", "not found", "no process", "sent"}
              /\ \/ client[c].status # "connected"
                 \/ call.name \notin client[c].tools) =>
               /\ call.outcome \in {"not connected", "not found"}
               /\ client'[c].written = <<>>
               /\ client'[c].requestId = client[c].requestId
               /\ client'[c].pendingRequests = client[c].pendingRequests
               /\ client'[c].timers = client[c].timers
               /\ client'[c].requests = begin(client[c]).requests
          /\ call.outcome = "sent" =>
               /\ client[c].status = "connected"
               /\ call.name \in client[c].tools
               /\ SentIds(client'[c].written) = <<client'[c].requestId>>
               /\ client'[c].written[1].method = "tools/call"
          /\ call.outcome = "returned" =>
               /\ Answered(client'[c], "tools/call")
               /\ call.value = client'[c].lastMessage.result]_<<vars, mcpVars, hostVars>>

\* C19 witness: a connected client whose catalog holds one tool, with a
\* tools/call request pending, has been asked for a tool that is not in the
\* catalog.
C19_Witness ==
  \E c \in DOMAIN client :
    /\ client[c].lastCall.outcome = "not found"
    /\ client[c].lastCall.name = "fetch"
    /\ client[c].status = "connected"
    /\ client[c].tools = {"search"}
    /\ client[c].pendingRequests # {}
    /\ client[c].written = <<>>

\* ------------------------------------------------- two clients side by side
\* Two MCPClients, made by their host for two providers.
IsolationInit ==
  /\ TaskFields
  /\ HostUnused
  /\ maxLoopCount = 1
  /\ client = <<NewClient, NewClient>>
  /\ registry = [NewRegistry EXCEPT !.created = 2]

\* Each client connects, shakes hands and is called; the first one also
\* fails in every way: its subprocess exits or reports an error, its
\* requests time out, its host disconnects it.
IsolationNext ==
  \/ \E c \in Clients : Connect(c)
  \/ \E c \in Clients, k \in 1..MaxProcs : GraceElapsed(c, k)
  \/ \E c \in Clients : LineArrives(c)
  \/ \E c \in Clients : CallTool(c)
  \/ \E k \in 1..MaxProcs : Stderr(1, k)
  \/ \E k \in 1..MaxProcs : ProcessExit(1, k)
  \/ \E k \in 1..MaxProcs : ProcessError(1, k)
  \/ PartialArrives(1)
  \/ RequestTimeout(1)
  \/ Disconnect(1)

IsolationSpec == IsolationInit /\ [][IsolationNext]_<<vars, mcpVars, hostVars>>

\* C20: clients are isolated: a step of one client (a failure of its
\* handshake, a timeout of one of its requests, the exit or error of its
\* subprocess, its disconnect, and any other step it takes) leaves the
\* status, the tool catalog, the pending requests and the id counter of
\* every other client, and the rest of its state, as they were.
C20_ClientsIsolated ==
  [][\A c \in DOMAIN client :
       client'[c] # client[c] =>
         \A d \in DOMAIN client \ {c} :
           /\ client'[d].status = client[d].status
           /\ client'[d].tools = client[d].tools
           /\ client'[d].pendingRequests = client[d].pendingRequests
           /\ client'[d].requestId = client[d].requestId
           /\ client'[d] = client[d]]_<<vars, mcpVars, hostVars>>

\* C20 witness: the first client, connected with a request pending, has
\* been disconnected by the exit of its subprocess, while the second one is
\* connected, holds a catalog and waits for the answer to a tools/call
\* request.
C20_Witness ==
  /\ DOMAIN client = {1, 2}
  /\ client[1].published = <<"connected", "disconnected">>
  /\ \E id \in DOMAIN client[1].requests :
       /\ client[1].requests[id].outcome = "rejected"
       /\ client[1].requests[id].reason = Msg("Client disconnected", "")
  /\ \E k \in 1..MaxProcs : client[1].procs[k] = "gone"
  /\ client[2].status = "connected"
  /\ client[2].tools = {"search"}
  /\ client[2].pendingRequests = {3}
  /\ client[2].requestId = 3

\* ------------------------------------------------------------- MCPManager
\* A server definition (shared/types/mcp.ts:8-17), reduced to the fields the
\* manager reads.  A name is the sequence of its characters.
MCPServerConfig(id, name, command, args, enabled) ==
  [id |-> id, name |-> name, command |-> command, args |-> args,
   enabled |-> enabled]

\* configs.findIndex((c) => c.id === id): the first position holding the
\* id, 0 when there is none (-1 in the code).
findIndex(configs, id) ==
  IF \E i \in DOMAIN configs : configs[i].id = id
  THEN Min({i \in DOMAIN configs : configs[i].id = id})
  ELSE 0

\* configs.splice(index, 1)
splice(configs, index) ==
  [i \in 1..(Len(configs) - 1) |->
     IF i < index THEN configs[i] ELSE configs[i + 1]]

\* The error a manager method throws for an id without definition.
NotFound == "not found"

\* part_008:615-630  addServer: the definition is appended under a new id.
\* The id is made of the clock and a random number: one that no definition
\* carries.
addServer(server, id) ==
  /\ findIndex(registry.configs, id) = 0
  /\ registry' = [registry EXCEPT !.configs = Append(@, [server EXCEPT !.id = id]),
                                  !.thrown = ""]
  /\ UNCHANGED <<vars, client, hostVars>>

\* Mutant: the client is dropped from the map without being disconnected.
Dropped_MapOnly(id) == client

\* The live client of an id after client.disconnect() and clients.delete(id)
\* (part_008:640-644, 662-666, 711-715): nothing when the id has none.
Dropped(id) ==
  LET c == registry.clients[id]
  IN IF c = 0 THEN client
     ELSE [client EXCEPT ![c] = RunJobs(disconnect(begin(@)))]

\* part_008:632-649  updateServer
updateServer(server) ==
  LET index == findIndex(registry.configs, server.id)
  IN IF index = 0
     THEN /\ registry' = [registry EXCEPT !.thrown = NotFound]
          /\ UNCHANGED <<vars, client, hostVars>>
     ELSE /\ client' = Dropped(server.id)
          /\ registry' = [registry EXCEPT !.clients[server.id] = 0,
                                          !.configs[index] = server,
                                          !.thrown = ""]
          /\ UNCHANGED <<vars, hostVars>>

\* part_008:654-671  removeServer
removeServer(id) ==
  LET index == findIndex(registry.configs, id)
  IN IF index = 0
     THEN /\ registry' = [registry EXCEPT !.thrown = NotFound]
          /\ UNCHANGED <<vars, client, hostVars>>
     ELSE /\ client' = Dropped(id)
          /\ registry' = [registry EXCEPT !.clients[id] = 0,
                                          !.configs = splice(@, index),
                                          !.thrown = ""]
          /\ UNCHANGED <<vars, hostVars>>

\* part_008:686-688  connectServer returns at once for this client.
AlreadyConnected(cl) == cl.status = "connected"

\* part_008:676-705  connectServer, up to the first await of the connect()
\* it calls: a new MCPClient takes the place of the id in the map unless
\* the one there is connected.
connectServer(id) ==
  LET index == findIndex(registry.configs, id)
      c == registry.clients[id]
  IN IF index = 0
     THEN /\ registry' = [registry EXCEPT !.thrown = NotFound]
          /\ UNCHANGED <<vars, client, hostVars>>
     ELSE IF ~registry.configs[index].enabled
     THEN /\ registry' = [registry EXCEPT !.thrown = "disabled"]
          /\ UNCHANGED <<vars, client, hostVars>>
     ELSE IF c # 0 /\ AlreadyConnected(client[c])
     THEN /\ registry' = [registry EXCEPT !.thrown = ""]
          /\ UNCHANGED <<vars, client, hostVars>>
     ELSE /\ registry.created < Max(Clients)
          /\ client' = Append(client, RunJobs(connect(begin(NewClient))))
          /\ registry' = [registry EXCEPT !.clients[id] = registry.created + 1,
                                          !.created = @ + 1,
                                          !.thrown = ""]
          /\ UNCHANGED <<vars, hostVars>>

\* part_008:710-716  disconnectServer
disconnectServer(id) ==
  /\ client' = Dropped(id)
  /\ registry' = [registry EXCEPT !.clients[id] = 0, !.thrown = ""]
  /\ UNCHANGED <<vars, hostVars>>

\* The definitions the host adds and edits: one per provider, named after
\* it, enabled or not.
ServerOf(p, enabled) == MCPServerConfig(p, <<p>>, "npx", <<p>>, enabled)

\* An MCPManager, made by the extension with nothing stored.
ManagerInit ==
  /\ TaskFields
  /\ HostUnused
  /\ maxLoopCount = 1
  /\ client = <<>>
  /\ registry = NewRegistry

\* The provider whose server the host edits, connects and disconnects; the
\* definitions of the others are only added and removed.
Managed == "A"

\* The host manages the servers of its providers while the subprocesses
\* of the clients start, answer and exit.
ManagerNext ==
  \/ \E p \in Providers : addServer(ServerOf(p, TRUE), p)
  \/ \E e \in BOOLEAN : updateServer(ServerOf(Managed, e))
  \/ \E p \in Providers : removeServer(p)
  \/ connectServer(Managed)
  \/ disconnectServer(Managed)
  \/ \E c \in Clients, k \in 1..MaxProcs : GraceElapsed(c, k)
  \/ \E c \in Clients : LineArrives(c)
  \/ \E c \in Clients, k \in 1..MaxProcs : ProcessExit(c, k)

ManagerSpec == ManagerInit /\ [][ManagerNext]_<<vars, mcpVars, hostVars>>

\* -------------------------------------------------------- MCPManager: claims
\* The running subprocesses of a client.
RunningProcs(cl) == {k \in DOMAIN cl.procs : cl.procs[k] = "running"}

\* C21: connectServer(id) is idempotent when the client of the id is already
\* connected or connecting: the call makes no new client, spawns no new
\* subprocess and leaves the live-client map and the session of the client
\* as they were.
C21_ConnectServerIdempotent ==
  [][\A p \in Providers :
       (/\ connectServer(p)
        /\ registry.clients[p] # 0
        /\ client[registry.clients[p]].status \in {"connected", "connecting"})
       => /\ registry'.created = registry.created
          /\ registry'.clients = registry.clients
          /\ client' = client]_<<vars, mcpVars, hostVars>>

\* C22: under any interleaving of connectServer, disconnectServer,
\* updateServer and removeServer there is no orphan: every client with a
\* running subprocess is the client the map holds for some id; the map
\* holds one client per id, so at most one client with a running subprocess
\* exists per id.
C22_NoOrphanSubprocess ==
  \A c \in DOMAIN client :
    RunningProcs(client[c]) # {} =>
      \E p \in Providers : registry.clients[p] = c

\* What updateServer and removeServer leave of the client c that the map
\* held before: it is disconnected, no subprocess of it runs, every request
\* it waited for is rejected and it waits for none, its timers are
\* cleared.
ForcedOff(c) ==
  c # 0 =>
    /\ client'[c].status = "disconnected"
    /\ client'[c].process = 0
    /\ RunningProcs(client'[c]) = {}
    /\ \A id \in client[c].pendingRequests :
         /\ client'[c].requests[id].outcome = "rejected"
         /\ client'[c].requests[id].reason = Msg("Client disconnected", "")
    /\ client'[c].pendingRequests = {}
    /\ client'[c].timers = {}

\* A call that failed for an unknown id changed nothing but the error it
\* threw.
OnlyThrew(error) ==
  /\ registry' = [registry EXCEPT !.thrown = error]
  /\ client' = client

\* C23: updateServer and removeServer first force-disconnect the live
\* client of the id: when either returns, the client the map held is
\* disconnected (subprocess terminated, pending requests rejected) and the
\* map holds none for the id; after removeServer the id is in neither the
\* definitions nor the map; for an id without definition both fail and
\* change nothing.
C23_UpdateRemoveDisconnectFirst ==
  [][\A p \in Providers :
       /\ \A e \in BOOLEAN :
            updateServer(ServerOf(p, e)) =>
              IF findIndex(registry.configs, p) = 0
              THEN OnlyThrew(NotFound)
              ELSE /\ ForcedOff(registry.clients[p])
                   /\ registry'.clients[p] = 0
                   /\ registry'.thrown = ""
                   /\ registry'.configs[findIndex(registry.configs, p)]
                        = ServerOf(p, e)
       /\ removeServer(p) =>
            IF findIndex(registry.configs, p) = 0
            THEN OnlyThrew(NotFound)
            ELSE /\ ForcedOff(registry.clients[p])
                 /\ registry'.clients[p] = 0
                 /\ registry'.thrown = ""
                 /\ findIndex(registry'.configs, p) = 0
                 /\ Len(registry'.configs) = Len(registry.configs) - 1]_<<vars, mcpVars, hostVars>>

\* C23 witness: the only definition was removed while its client waited
\* for the answer to its initialize request: the client, no longer in the
\* map, is disconnected, its subprocess killed and the request rejected.
C23_Witness ==
  /\ registry.configs = <<>>
  /\ registry.thrown = ""
  /\ registry.created = 1
  /\ \A p \in Providers : registry.clients[p] = 0
  /\ client[1].status = "disconnected"
  /\ client[1].procs[1] = "killed"
  /\ client[1].requests[1].outcome = "rejected"
  /\ client[1].requests[1].reason = Msg("Client disconnected", "")

\* --------------------------------------------------------- MCPToolRegistry
\* The characters a name is made of here: letters in both cases (see
\* toLowerCase), digits, and others.
Letters == {"a", "b"}
Digits == {"0", "1"}

\* part_007:76  serverName.toLowerCase().replace(/[^a-z0-9]/g, "_")
Sanitized(name) ==
  [i \in DOMAIN name |->
     IF toLowerCase(name[i]) \in Letters \cup Digits
     THEN toLowerCase(name[i]) ELSE "_"]

\* part_007:65-80  the name of the MCPTool of a provider's tool: the prefix,
\* the sanitized display name of the server, an underscore and the name the
\* provider announced, which is kept whole.
MCPToolName(serverName, tool) ==
  <<"mcp_">> \o Sanitized(serverName) \o <<"_", tool>>

\* The elements of a finite set, one after the other.
RECURSIVE SetToSeq(_)
SetToSeq(S) ==
  IF S = {} THEN <<>>
  ELSE LET x == CHOOSE y \in S : TRUE
       IN <<x>> \o SetToSeq(S \ {x})

\* part_008:721-748  getAllTools: the tools of the connected clients of the
\* map, in the order of the map (ids), each with the id and the display
\* name of its server (the id when the server has no definition).
RECURSIVE getAllTools(_)
getAllTools(ids) ==
  IF ids = <<>> THEN <<>>
  ELSE LET serverId == Head(ids)
           c == registry.clients[serverId]
           index == findIndex(registry.configs, serverId)
           serverName == IF index # 0 /\ registry.configs[index].name # <<>>
                         THEN registry.configs[index].name ELSE <<serverId>>
           tools == IF c # 0 /\ client[c].status = "connected"
                    THEN SetToSeq(client[c].tools) ELSE <<>>
       IN [i \in DOMAIN tools |->
             [serverId |-> serverId, serverName |-> serverName,
              tool |-> tools[i]]]
          \o getAllTools(Tail(ids))

\* part_007:139-153  what refreshTools leaves in registeredTools: under each
\* name the MCPTool set last under it.
Registered(allTools) ==
  LET name(i) == MCPToolName(allTools[i].serverName, allTools[i].tool)
  IN [n \in {name(i) : i \in DOMAIN allTools} |->
        LET last == Max({i \in DOMAIN allTools : name(i) = n})
        IN [serverId |-> allTools[last].serverId,
            originalToolName |-> allTools[last].tool]]

\* The orders in which the map of the manager can hold the ids.
MapOrders == {<<"A", "B">>, <<"B", "A">>}

\* part_007:139-153  refreshTools
refreshTools(ids) ==
  /\ registeredTools' = Registered(getAllTools(ids))
  /\ UNCHANGED <<vars, mcpVars, permission, parser>>

\* The display names the host gives its servers.
ServerNames == {<<"a">>, <<"A">>, <<"a", "-">>, <<"b">>}

\* The host adds servers under names of its choice and connects them; the
\* providers answer the handshake; the dispatcher refreshes its tools.
ToolsNext ==
  \/ \E p \in Providers, n \in ServerNames :
       addServer(MCPServerConfig(p, n, "npx", <<p>>, TRUE), p)
  \/ \E p \in Providers : connectServer(p)
  \/ \E c \in Clients, k \in 1..MaxProcs : GraceElapsed(c, k)
  \/ \E c \in Clients : LineArrives(c)
  \/ \E ids \in MapOrders : refreshTools(ids)

ToolsSpec == ManagerInit /\ [][ToolsNext]_<<vars, mcpVars, hostVars>>

\* C24: the tools exposed to the dispatcher never collide: refreshTools
\* registers one entry per (provider, tool) pair of the connected
\* providers, distinct pairs under distinct names, and the entry of each
\* name routes to the id of its provider and to the original name of its
\* tool.
C24_RegisteredNamesDistinct ==
  [][\A ids \in MapOrders :
       refreshTools(ids) =>
         LET allTools == getAllTools(ids)
         IN /\ Cardinality(DOMAIN registeredTools') = Len(allTools)
            /\ \A i \in DOMAIN allTools :
                 registeredTools'[MCPToolName(allTools[i].serverName,
                                              allTools[i].tool)]
                   = [serverId |-> allTools[i].serverId,
                      originalToolName |-> allTools[i].tool]]_<<vars, mcpVars, hostVars>>

\* ------------------------------------------------------- MCPManager: market
\* The placeholder of the workspace folder in the arguments of a template.
Placeholder == "${workspaceFolder}"

\* An argument is the sequence of the parts of its text: the placeholder,
\* or text without it.
Arg(text) == <<text>>
Package(name) == <<Arg("-y"), Arg(name)>>

MCPMarketItem(id, name, args) ==
  [id |-> id, name |-> <<name>>, command |-> "npx", args |-> args]

\* part_008:392-517  the built-in templates
MCP_MARKET_ITEMS ==
  << MCPMarketItem("filesystem", "Filesystem",
       Package("@modelcontextprotocol/server-filesystem@latest")
         \o <<Arg(Placeholder)>>),
     MCPMarketItem("github", "GitHub",
       Package("@modelcontextprotocol/server-github@latest")),
     MCPMarketItem("postgres", "PostgreSQL",
       Package("@modelcontextprotocol/server-postgres@latest")),
     MCPMarketItem("sqlite", "SQLite",
       Package("@modelcontextprotocol/server-sqlite@latest")
         \o <<Arg("--db-path"), <<Placeholder, "/database.db">> >>),
     MCPMarketItem("fetch", "Fetch",
       Package("@modelcontextprotocol/server-fetch@latest")),
     MCPMarketItem("puppeteer", "Puppeteer",
       Package("@modelcontextprotocol/server-puppeteer@latest")),
     MCPMarketItem("brave-search", "Brave Search",
       Package("@modelcontextprotocol/server-brave-search@latest")),
     MCPMarketItem("memory", "Memory",
       Package("@modelcontextprotocol/server-memory@latest")),
     MCPMarketItem("sequential-thinking", "Sequential Thinking",
       Package("@modelcontextprotocol/server-sequential-thinking@latest")),
     MCPMarketItem("everything", "Everything",
       Package("@modelcontextprotocol/server-everything@latest")) >>

\* The parts of a text without the empty ones.
RECURSIVE Text(_)
Text(parts) ==
  IF parts = <<>> THEN <<>>
  ELSE IF Head(parts) = "" THEN Text(Tail(parts))
  ELSE <<Head(parts)>> \o Text(Tail(parts))

\* part_008:795-797  arg.replace("${workspaceFolder}", workspaceFolder): the
\* first occurrence of the placeholder is replaced.
Replaced(arg, workspaceFolder) ==
  IF \E i \in DOMAIN arg : arg[i] = Placeholder
  THEN LET first == Min({i \in DOMAIN arg : arg[i] = Placeholder})
       IN Text([arg EXCEPT ![first] = workspaceFolder])
  ELSE arg

processedArgs(args, workspaceFolder) ==
  [i \in DOMAIN args |-> Replaced(args[i], workspaceFolder)]

\* part_008:783-787  the definition that makes a template count as
\* installed: same command, same arguments as the template.
Existing(item) ==
  {i \in DOMAIN registry.configs :
     /\ registry.configs[i].command = item.command
     /\ registry.configs[i].args = item.args}

AlreadyInstalled == "already installed"

\* part_008:776-808  installFromMarket, in a window whose first workspace
\* folder is workspaceFolder ("" without folder); id is the id addServer
\* makes.
installFromMarket(itemId, workspaceFolder, id) ==
  LET found == {i \in DOMAIN MCP_MARKET_ITEMS : MCP_MARKET_ITEMS[i].id = itemId}
  IN IF found = {}
     THEN /\ registry' = [registry EXCEPT !.thrown = NotFound]
          /\ UNCHANGED <<vars, client, hostVars>>
     ELSE LET item == MCP_MARKET_ITEMS[Min(found)]
          IN IF Existing(item) # {}
             THEN /\ registry' = [registry EXCEPT !.thrown = AlreadyInstalled]
                  /\ UNCHANGED <<vars, client, hostVars>>
             ELSE addServer(
                    MCPServerConfig(id, item.name, item.command,
                                    processedArgs(item.args, workspaceFolder),
                                    TRUE),
                    id)

\* The ids that addServer makes, the templates the user picks (one of them
\* not on the market) and the folders of the window.
ServerIds == Providers \cup {"C"}
ItemIds == {MCP_MARKET_ITEMS[i].id : i \in DOMAIN MCP_MARKET_ITEMS} \cup {"unknown"}
WorkspaceFolders == {"", "/ws"}

\* The user installs templates from the market and removes servers.
MarketNext ==
  \/ \E itemId \in ItemIds, w \in WorkspaceFolders, id \in ServerIds :
       installFromMarket(itemId, w, id)
  \/ \E p \in Providers : removeServer(p)

MarketSpec == ManagerInit /\ [][MarketNext]_<<vars, mcpVars, hostVars>>

\* The definition that installFromMarket adds for a template in a window.
Installed(item, w, id) ==
  MCPServerConfig(id, item.name, item.command, processedArgs(item.args, w), TRUE)

\* C25: for every template and workspace path, of two calls of
\* installFromMarket the first succeeds, adding one definition with the
\* placeholder of the workspace substituted, and the second is rejected as
\* a duplicate and leaves the list of definitions unchanged: a call for a
\* template of which the list holds no installed definition appends that
\* definition, and a call for a template of which the list holds the
\* definition installed in the same window throws and changes nothing.
C25_SecondInstallRejected ==
  [][\A i \in DOMAIN MCP_MARKET_ITEMS, w \in WorkspaceFolders, id \in ServerIds :
       LET item == MCP_MARKET_ITEMS[i]
           held == \E j \in DOMAIN registry.configs :
                     [registry.configs[j] EXCEPT !.id = id] = Installed(item, w, id)
       IN installFromMarket(item.id, w, id) =>
            IF held
            THEN /\ registry'.thrown = AlreadyInstalled
                 /\ registry'.configs = registry.configs
            ELSE registry'.thrown = "" =>
                   registry'.configs = Append(registry.configs, Installed(item, w, id))]_<<vars, mcpVars, hostVars>>

\* ------------------------------------------------------- PermissionManager
\* A call of checkPermission: the operation asked for, how the decision was
\* sought ("auto": from the settings; "webview", "modal": from the user),
\* the decision, and what made it.
PermissionCall(operation, via, outcome, by) ==
  [operation |-> operation, via |-> via, outcome |-> outcome, by |-> by]

\* PermissionManager.ts:114-138, 143-176  requestUserConfirmation up to its
\* first await: with a webview the request is posted under a new id, its
\* resolver kept in pendingRequests and its timer armed; without one a
\* modal dialog is shown.
requestUserConfirmation(pm, operation) ==
  LET requestId == Len(pm.calls) + 1
  IN IF pm.webviewProvider
     THEN [pm EXCEPT !.pendingRequests = @ \cup {requestId},
                     !.timers = @ \cup {requestId},
                     !.calls = Append(@, PermissionCall(operation, "webview",
                                                        "pending", ""))]
     ELSE [pm EXCEPT !.calls = Append(@, PermissionCall(operation, "modal",
                                                        "pending", ""))]

\* PermissionManager.ts:92-95  the operation always requires confirmation.
AlwaysConfirmed(settings, operation) ==
  \E i \in DOMAIN settings.alwaysConfirm : settings.alwaysConfirm[i] = operation

\* Mutant: the default of the operation is looked at before the list.
AutoApproved_DefaultFirst(settings, operation) ==
  /\ operation \in DOMAIN OPERATION_DEFAULTS
  /\ settings[OPERATION_DEFAULTS[operation]]

\* PermissionManager.ts:88-103  checkPermission returns true without asking.
AutoApproved(settings, operation) ==
  /\ ~AlwaysConfirmed(settings, operation)
  /\ operation \in DOMAIN OPERATION_DEFAULTS
  /\ settings[OPERATION_DEFAULTS[operation]]

\* PermissionManager.ts:87-106  checkPermission, up to its first await.
checkPermission(operation) ==
  /\ Len(permission.calls) < MaxChecks
  /\ permission' =
       IF AutoApproved(permission.settings, normalizeOperation(operation))
       THEN [permission EXCEPT
               !.calls = Append(@, PermissionCall(operation, "auto",
                                                  "approved", "settings"))]
       ELSE requestUserConfirmation(permission, operation)
  /\ UNCHANGED <<vars, mcpVars, registeredTools, parser>>

\* Mutant: the response calls the resolver and leaves the entry in place.
handlePermissionResponse_EntryKept(requestId, approved) ==
  /\ permission' =
       IF requestId \in permission.pendingRequests
       THEN [permission EXCEPT
               !.calls[requestId].outcome = IF approved THEN "approved" ELSE "denied",
               !.calls[requestId].by = "user"]
       ELSE permission
  /\ UNCHANGED <<vars, mcpVars, registeredTools, parser>>

\* PermissionManager.ts:72-78  handlePermissionResponse
handlePermissionResponse(requestId, approved) ==
  /\ permission' =
       IF requestId \in permission.pendingRequests
       THEN [permission EXCEPT
               !.calls[requestId].outcome = IF approved THEN "approved" ELSE "denied",
               !.calls[requestId].by = "user",
               !.pendingRequests = @ \ {requestId}]
       ELSE permission
  /\ UNCHANGED <<vars, mcpVars, registeredTools, parser>>

\* Mutant: the timer finds the request pending and leaves it so.
onPermissionTimeout_Ignored(pm, requestId) ==
  [pm EXCEPT !.timers = @ \ {requestId}]

\* PermissionManager.ts:166-174  the callback of the timer of a request.
onPermissionTimeout(pm, requestId) ==
  IF requestId \in pm.pendingRequests
  THEN [pm EXCEPT !.calls[requestId].outcome = "denied",
                  !.calls[requestId].by = "timeout",
                  !.pendingRequests = @ \ {requestId},
                  !.timers = @ \ {requestId}]
  ELSE [pm EXCEPT !.timers = @ \ {requestId}]

\* The 5-minute timer of a request fires.
PermissionTimeout(requestId) ==
  /\ requestId \in permission.timers
  /\ permission' = onPermissionTimeout(permission, requestId)
  /\ UNCHANGED <<vars, mcpVars, registeredTools, parser>>

\* PermissionManager.ts:122-137  the user closes the modal dialog with one
\* of its buttons, or dismisses it.
ModalClosed(requestId, result) ==
  /\ requestId \in DOMAIN permission.calls
  /\ permission.calls[requestId].via = "modal"
  /\ permission.calls[requestId].outcome = "pending"
  /\ permission' =
       [permission EXCEPT
          !.calls[requestId].outcome = IF result = "Allow" THEN "approved" ELSE "denied",
          !.calls[requestId].by = "user"]
  /\ UNCHANGED <<vars, mcpVars, registeredTools, parser>>

\* PermissionManager.ts:65-67  setWebviewProvider
setWebviewProvider ==
  /\ permission' = [permission EXCEPT !.webviewProvider = TRUE]
  /\ UNCHANGED <<vars, mcpVars, registeredTools, parser>>

\* PermissionManager.ts:198-201  updateSettings
updateSettings(updates) ==
  /\ permission' = [permission EXCEPT !.settings = mergeSettings(@, updates)]
  /\ UNCHANGED <<vars, mcpVars, registeredTools, parser>>

\* The operations the tools ask for, as they spell them, and the settings
\* the user saves.
RequestOperations ==
  {<<" ", "Read">>, <<"WRITE", " ">>, <<"modify">>, <<"Execute">>,
   <<"delete">>}
SettingsUpdates ==
  {[allowExecuteByDefault |-> TRUE],
   [allowReadByDefault |-> FALSE, allowWriteByDefault |-> TRUE],
   [alwaysConfirm |-> << <<"Read", " ">>, <<"write">> >>],
   [alwaysConfirm |-> <<>>]}
DialogResults == {"Allow", "Deny", "dismissed"}

\* A PermissionManager, made by the extension.
PermissionInit ==
  /\ TaskFields
  /\ maxLoopCount = 1
  /\ McpUnused
  /\ HostUnused

PermissionNext ==
  \/ \E operation \in RequestOperations : checkPermission(operation)
  \/ \E requestId \in 1..MaxChecks, approved \in BOOLEAN :
       handlePermissionResponse(requestId, approved)
  \/ \E requestId \in 1..MaxChecks : PermissionTimeout(requestId)
  \/ \E requestId \in 1..MaxChecks, result \in DialogResults :
       ModalClosed(requestId, result)
  \/ setWebviewProvider
  \/ \E updates \in SettingsUpdates : updateSettings(updates)

PermissionSpec == PermissionInit /\ [][PermissionNext]_<<vars, mcpVars, hostVars>>

\* ------------------------------------------------ PermissionManager: claims
\* The allow*ByDefault flag of an operation is true: it is read, write or
\* modify, or execute, and the flag of its kind is set.
DefaultAllows(settings, operation) ==
  \/ operation = <<"read">> /\ settings.allowReadByDefault
  \/ operation \in {<<"write">>, <<"modify">>} /\ settings.allowWriteByDefault
  \/ operation = <<"execute">> /\ settings.allowExecuteByDefault

\* C27: an operation listed in alwaysConfirm always requires confirmation:
\* whatever the settings, checkPermission does not auto-approve it, even
\* when its allow*ByDefault flag is true; an operation not listed is
\* auto-approved when it is read, write/modify or execute and its
\* allow*ByDefault flag is true, and every other operation goes to the
\* user for confirmation.
C27_AlwaysConfirmWins ==
  [][\A operation \in RequestOperations :
       checkPermission(operation) =>
         LET asked == normalizeOperation(operation)
             call == permission'.calls[Len(permission'.calls)]
             confirmation == /\ call.via \in {"webview", "modal"}
                             /\ call.outcome = "pending"
             approved == /\ call.via = "auto"
                         /\ call.outcome = "approved"
                         /\ permission'.pendingRequests = permission.pendingRequests
         IN IF AlwaysConfirmed(permission.settings, asked)
            THEN confirmation
            ELSE IF DefaultAllows(permission.settings, asked)
            THEN approved
            ELSE confirmation]_<<vars, mcpVars, hostVars>>

\* C27 witness: with execute listed in alwaysConfirm and
\* allowExecuteByDefault set, an execute operation went to the webview for
\* confirmation, and a read operation, not listed, was auto-approved.
C27_Witness ==
  /\ permission.settings.allowExecuteByDefault
  /\ permission.settings.allowReadByDefault
  /\ permission.settings.alwaysConfirm = << <<"delete">>, <<"execute">> >>
  /\ Len(permission.calls) = 2
  /\ permission.calls[1] = PermissionCall(<<"Execute">>, "webview", "pending", "")
  /\ permission.calls[2] = PermissionCall(<<" ", "Read">>, "auto", "approved", "settings")
  /\ permission.pendingRequests = {1}

\* The PermissionManager without changes of its settings; the timer of a
\* request, once armed, fires: the event loop of the extension host runs
\* the callback of every timer that is due.
ConfirmationNext ==
  \/ \E operation \in RequestOperations : checkPermission(operation)
  \/ \E requestId \in 1..MaxChecks, approved \in BOOLEAN :
       handlePermissionResponse(requestId, approved)
  \/ \E requestId \in 1..MaxChecks : PermissionTimeout(requestId)
  \/ \E requestId \in 1..MaxChecks, result \in DialogResults :
       ModalClosed(requestId, result)
  \/ setWebviewProvider

ConfirmationFairSpec ==
  /\ PermissionInit
  /\ [][ConfirmationNext]_<<vars, mcpVars, hostVars>>
  /\ \A requestId \in 1..MaxChecks :
       WF_<<vars, mcpVars, hostVars>>(PermissionTimeout(requestId))

\* C26: a permission request sent to the webview that receives no response
\* resolves to denied when its 5-minute timer fires and is then removed
\* from the pending requests; the timer of a pending request is armed, so
\* every pending request is resolved eventually and the tool dispatch that
\* waits for it continues.
C26_PendingRequestResolves ==
  /\ [][\A requestId \in 1..MaxChecks :
          (PermissionTimeout(requestId) /\ requestId \in permission.pendingRequests)
            => /\ permission'.calls[requestId].outcome = "denied"
               /\ requestId \notin permission'.pendingRequests]_<<vars, mcpVars, hostVars>>
  /\ [](permission.pendingRequests \subseteq permission.timers)
  /\ \A requestId \in 1..MaxChecks :
       (requestId \in permission.pendingRequests)
         ~> (/\ requestId \notin permission.pendingRequests
             /\ requestId \in DOMAIN permission.calls
             /\ permission.calls[requestId].outcome \in {"approved", "denied"})

\* C26 witness: a request sent to the webview got no response and was
\* denied by its timer; it is pending no more.
C26_Witness ==
  /\ Len(permission.calls) >= 1
  /\ permission.calls[1].via = "webview"
  /\ permission.calls[1].outcome = "denied"
  /\ permission.calls[1].by = "timeout"
  /\ 1 \notin permission.pendingRequests
  /\ 1 \notin permission.timers

\* ------------------------------------------------------ Task: empty turns
\* A finalized content that is entirely empty: no block, or text blocks
\* without text.
Blank(content) ==
  \A i \in DOMAIN content :
    content[i].type = "text" /\ content[i].content = <<>>

\* C30: when the finalized content of a model turn holds no tool invocation
\* and is entirely empty (no text at all, or only blanks), the Task
\* terminates as Completed: no corrective instruction is appended to the
\* history and the loop is not entered again, so that no further model
\* stream is opened.
C30_EmptyTurnCompletes ==
  [][(NoToolCalls /\ Blank(assistantContent))
       => /\ isCompleted'
          /\ history' = history
          /\ ~(stack' # <<>> /\ Last(stack').fn = "loop" /\ Last(stack').pc = "entry")]_vars

\* ------------------------------------------- a Task that calls a provider
\* The MCPClient of a provider once connect() has returned: the subprocess
\* spawned, the grace window over, the handshake answered and the catalog,
\* with one tool, received.
ConnectedClient ==
  LET spawned == RunJobs(connect(begin(NewClient)))
      greeted == RunJobs(afterGrace(begin(spawned), 1))
      initialized == RunJobs(handleMessage(begin(greeted), Response(1, FALSE, {})))
  IN RunJobs(handleMessage(begin(initialized), Response(2, FALSE, {"search"})))

\* A Task is constructed while the provider is connected.
ToolCallInit ==
  /\ TaskFields
  /\ HostUnused
  /\ maxLoopCount = 1
  /\ client = <<ConnectedClient>>
  /\ registry = [NewRegistry EXCEPT !.clients["A"] = 1, !.created = 1]

\* The Task runs; while one of its tool invocations is in flight the tool
\* calls the provider (part_007:82-90); the provider answers, or the
\* request times out.
ToolCallNext ==
  \/ Next
  \/ inFlight # {} /\ CallTool(1)
  \/ LineArrives(1)
  \/ RequestTimeout(1)

ToolCallSpec == ToolCallInit /\ [][ToolCallNext]_<<vars, mcpVars, hostVars>>

\* C28: Task.cancel() does not cancel a tool call already in flight: it
\* changes no state of a protocol client (status, pending requests, timers,
\* nor anything else); after it the in-flight call still returns the
\* result when the provider answers and still throws when its timer fires,
\* the timer being armed; what cancel() suppresses is the dispatch of the
\* later tools and the next model stream.
C28_CancelLeavesCallsInFlight ==
  /\ [][Cancel => /\ \A c \in DOMAIN client :
                       /\ client'[c].status = client[c].status
                       /\ client'[c].pendingRequests = client[c].pendingRequests
                       /\ client'[c].timers = client[c].timers
                  /\ client' = client
                  /\ registry' = registry
                  /\ inFlight' = inFlight]_<<vars, mcpVars, hostVars>>
  /\ [][isCancelled => ~DispatchTool /\ ~OpenStream]_<<vars, mcpVars, hostVars>>
  /\ [](isCancelled =>
          \A id \in client[1].pendingRequests :
            /\ id \in client[1].timers
            /\ RunJobs(handleMessage(begin(client[1]),
                                     Response(id, FALSE, {"search"}))).lastCall
                 = [NoCall EXCEPT !.outcome = "returned", !.value = {"search"}]
            /\ RunJobs(onTimeout(begin(client[1]), id)).lastCall.outcome = "threw")

\* C28 witness: the Task was cancelled while a tool invocation was in
\* flight whose tools/call request the provider has not answered: the
\* request is still pending and its timer still armed.
C28_Witness ==
  /\ isCancelled
  /\ isCompleted
  /\ inFlight # {}
  /\ client[1].status = "connected"
  /\ client[1].pendingRequests = {3}
  /\ client[1].timers = {3}
  /\ client[1].requests[3].method = "tools/call"

\* ----------------------------------------- AssistantMessageParser (spec)
\* The class AssistantMessageParser is imported by assistantStreaming.ts
\* from ./assistantMessage; what follows is its contract in the specification
\* (section 4.2): a tool invocation is nested tagged markup embedded in free
\* text, recognised by a tag naming a known tool and, inside it, tags
\* naming known parameters.  A text is a sequence of characters; "t" is the
\* known tool name, "p" the known parameter name.
OpenTool == <<"<", "t", ">">>
CloseTool == <<"<", "/", "t", ">">>
OpenParam == <<"<", "p", ">">>
CloseParam == <<"<", "/", "p", ">">>

\* The first position from which pattern occurs in text at or after from;
\* 0 if there is none.
Find(text, pattern, from) ==
  LET hits == {i \in from..(Len(text) - Len(pattern) + 1) :
                 SubSeq(text, i, i + Len(pattern) - 1) = pattern}
  IN IF hits = {} THEN 0 ELSE CHOOSE i \in hits : \A j \in hits : i <= j

ParsedText(content, partial) ==
  [type |-> "text", name |-> "", content |-> content, params |-> <<>>,
   partial |-> partial]

ParsedToolUse(name, params, partial) ==
  [type |-> "tool_use", name |-> name, content |-> <<>>, params |-> params,
   partial |-> partial]

\* The parameter values of the inside of a tool tag, in order; the value of
\* a parameter tag that is not closed yet is what follows it.
RECURSIVE Params(_)
Params(inside) ==
  LET open == Find(inside, OpenParam, 1)
      close == Find(inside, CloseParam, open + Len(OpenParam))
  IN IF open = 0 THEN <<>>
     ELSE IF close = 0
     THEN <<SubSeq(inside, open + Len(OpenParam), Len(inside))>>
     ELSE <<SubSeq(inside, open + Len(OpenParam), close - 1)>>
            \o Params(SubSeq(inside, close + Len(CloseParam), Len(inside)))

\* "content blocks so far" of the text received: free text up to a tool
\* tag, the invocation, and so on; the last free text and an invocation
\* whose tag is not closed are partial.
RECURSIVE Blocks(_)
Blocks(text) ==
  LET open == Find(text, OpenTool, 1)
      close == Find(text, CloseTool, open + Len(OpenTool))
      before == IF open <= 1 THEN <<>>
                ELSE <<ParsedText(SubSeq(text, 1, open - 1), FALSE)>>
  IN IF open = 0
     THEN IF text = <<>> THEN <<>> ELSE <<ParsedText(text, TRUE)>>
     ELSE IF close = 0
     THEN before \o <<ParsedToolUse("t",
                        Params(SubSeq(text, open + Len(OpenTool), Len(text))),
                        TRUE)>>
     ELSE before
            \o <<ParsedToolUse("t",
                   Params(SubSeq(text, open + Len(OpenTool), close - 1)),
                   FALSE)>>
            \o Blocks(SubSeq(text, close + Len(CloseTool), Len(text)))

\* processChunk: "feed a fragment": the markup is reconstructed from the
\* fragments received so far, so the parser keeps what it received.
processChunk(received, fragment) == received \o fragment

\* getContentBlocks / the value of processChunk: "content blocks so far".
getContentBlocks(received) == Blocks(received)

RECURSIVE finalizeContentBlocks(_)
\* finalize: "resolve all partial flags to false or drop an invocation that
\* never closed": free text becomes final, an unclosed invocation is dropped.
finalizeContentBlocks(blocks) ==
  IF blocks = <<>> THEN <<>>
  ELSE IF Head(blocks).type = "tool_use" /\ Head(blocks).partial
  THEN finalizeContentBlocks(Tail(blocks))
  ELSE <<[Head(blocks) EXCEPT !.partial = FALSE]>>
         \o finalizeContentBlocks(Tail(blocks))

\* --------------------------------------- streamAssistantResponse: actions
\* A content chunk whose text is passed to the parser again in full.
onContent_WholeMessage(s, content) ==
  LET received == processChunk(s.received, s.assistantMessage \o content)
  IN [s EXCEPT !.assistantMessage = @ \o content,
               !.received = received,
               !.contentBlocks = getContentBlocks(received)]

\* assistantStreaming.ts:192-194: the content of the chunk is appended to
\* assistantMessage and fed to the parser, which returns the content blocks
\* so far.
onContent(s, content) ==
  LET received == processChunk(s.received, content)
  IN [s EXCEPT !.assistantMessage = @ \o content,
               !.received = received,
               !.contentBlocks = getContentBlocks(received)]

\* assistantStreaming.ts:188-200: the stream yields a content chunk holding
\* the next n characters of the output, and the Task is not cancelled.
ContentChunk(n) ==
  /\ ~parser.returned
  /\ n \in 1..(Len(parser.output) - parser.fed)
  /\ parser' = [onContent(parser, SubSeq(parser.output, parser.fed + 1,
                                         parser.fed + n))
                  EXCEPT !.fed = @ + n, !.fragments = @ + 1]
  /\ UNCHANGED <<vars, mcpVars, registeredTools, permission>>

\* assistantStreaming.ts:201-203: the stream yields its usage chunk.
UsageChunk ==
  /\ ~parser.returned
  /\ ~parser.usage
  /\ parser' = [parser EXCEPT !.usage = TRUE]
  /\ UNCHANGED <<vars, mcpVars, registeredTools, permission>>

\* assistantStreaming.ts:188-191, 206-208: the loop is left, at the end of
\* the stream or (cancelled) at a chunk received after the Task was
\* cancelled; the parser is finalized and its content blocks are returned.
StreamReturns(cancelled) ==
  /\ ~parser.returned
  /\ IF cancelled
     THEN parser.fed < Len(parser.output) \/ ~parser.usage
     ELSE parser.fed = Len(parser.output)
  /\ parser' = [parser EXCEPT
                  !.contentBlocks = finalizeContentBlocks(getContentBlocks(parser.received)),
                  !.returned = TRUE]
  /\ UNCHANGED <<vars, mcpVars, registeredTools, permission>>

\* The pieces model outputs are made of: free text, a stray "<", the tags
\* of a tool invocation and a parameter with its value.
Pieces ==
  {<<"x">>, <<"<">>, OpenTool, OpenParam \o <<"x">> \o CloseParam, CloseTool}

RECURSIVE Outputs(_)
\* The model outputs of at most n pieces.
Outputs(n) ==
  IF n = 0 THEN {<<>>}
  ELSE Outputs(n - 1)
         \cup {o \o piece : o \in Outputs(n - 1), piece \in Pieces}

StreamInit ==
  /\ TaskFields
  /\ maxLoopCount = 1
  /\ McpUnused
  /\ HostIdle
  /\ parser \in {NewStream(output) : output \in Outputs(MaxPieces)}

StreamNext ==
  \/ \E n \in 1..(MaxPieces * 8) : ContentChunk(n)
  \/ UsageChunk
  \/ \E cancelled \in BOOLEAN : StreamReturns(cancelled)

StreamSpec == StreamInit /\ [][StreamNext]_<<vars, mcpVars, hostVars>>

C31_ResultBeforeNextCall ==
  Running("loop", "tools") =>
    \A i \in 2..(nextTool - 1) : recorded >= i - 1

\* ------------------------------------------------ MCPClient: failed connect
\* C32: when connect() fails (spawn failure, early exit, handshake error
\* or timeout) the client ends in status error with the failure message as
\* its last error: in the state in which a connect() call has just thrown,
\* status is error and error is the message of the failure that was thrown.
C32_FailedConnectLeavesError ==
  \A c \in DOMAIN client :
    \A k \in DOMAIN client[c].connects :
      client[c].connects[k].pc = "failed" =>
        /\ client[c].status = "error"
        /\ client[c].error = client[c].connects[k].failure

\* ------------------------------------------------- Task: display history
\* A Task of iteration cap 2 in a new conversation: the display history is
\* followed and holds no message.
DisplayInit ==
  /\ TaskState
  /\ maxLoopCount = 2
  /\ messages = <<>>
  /\ McpUnused
  /\ HostUnused

DisplaySpec == DisplayInit /\ [][Next]_vars

\* The step records the next result of the batch (task.ts:296-320).
RecordsResult == recorded' = recorded + 1

\* C33: each tool result is attached to the message of the very invocation
\* that produced it: when a result is recorded, the message that the search
\* of task.ts:309-314 finds is the one added for that invocation (same model
\* turn, same place in the batch), also when the batch holds several
\* invocations of one tool and when earlier invocations left a message
\* that never received a result.
C33_ResultAttachedToOwnCall ==
  [][RecordsResult =>
       LET result == results[recorded + 1]
           index == lastToolCallIndex(messages, result.tool_name)
       IN /\ index # 0
          /\ messages[index].turn = streamsOpened
          /\ messages[index].index = result.index]_vars

\* ------------------------------------------ MCPClient: decoding of output
\* The output of a subprocess is a sequence of bytes.  A byte stands for
\* itself as a character, but for the two bytes of the one character that
\* is not ASCII.
Newline == "\n"
LeadByte == "0xC3"
TrailByte == "0xA9"
TwoByteChar == "e-acute"
ReplacementChar == "U+FFFD"

\* part_008:129-131  Buffer.toString() of one data event: UTF-8 decoding of
\* the bytes of that event alone; a byte sequence that is not complete in
\* the event decodes to the replacement character.
RECURSIVE toString(_)
toString(bytes) ==
  IF bytes = <<>> THEN <<>>
  ELSE IF Len(bytes) >= 2 /\ bytes[1] = LeadByte /\ bytes[2] = TrailByte
  THEN <<TwoByteChar>> \o toString(SubSeq(bytes, 3, Len(bytes)))
  ELSE IF bytes[1] \in {LeadByte, TrailByte}
  THEN <<ReplacementChar>> \o toString(Tail(bytes))
  ELSE <<bytes[1]>> \o toString(Tail(bytes))

\* String.split("\n"): the pieces between the newlines, at least one.
RECURSIVE split(_)
split(text) ==
  LET n == Find(text, <<Newline>>, 1)
  IN IF n = 0 THEN <<text>>
     ELSE <<SubSeq(text, 1, n - 1)>> \o split(SubSeq(text, n + 1, Len(text)))

\* The characters of the text inside a result.
ResultChars == {"a", TwoByteChar, ReplacementChar}

\* The id of the tools/call request that is pending.
CallId == 3

\* JSON.parse of a line, as far as handleMessage reads the message: "r"
\* followed by a text is the response to the pending request whose result is
\* the text, "n" is a notification; blanks around it are allowed; any
\* other line is not JSON (NoMessage).
JSONparse(line) ==
  LET text == trim(line)
  IN IF text = <<"n">>
     THEN [NoMessage EXCEPT !.kind = "notification"]
     ELSE IF text # <<>> /\ Head(text) = "r"
             /\ \A i \in 2..Len(text) : text[i] \in ResultChars
     THEN Response(CallId, FALSE, Tail(text))
     ELSE NoMessage

\* part_008:232-245  the complete lines are handled in order: a blank line
\* is skipped, a line that does not parse is logged and dropped.  The
\* messages handed to handleMessage are kept in decoded.
RECURSIVE handleLines(_, _)
handleLines(cl, lines) ==
  IF lines = <<>> THEN cl
  ELSE LET message == JSONparse(Head(lines))
           handled ==
             IF trim(Head(lines)) = <<>> \/ message = NoMessage THEN cl
             ELSE [handleMessage(cl, message)
                     EXCEPT !.decoded = Append(@, Handled(cl, message))]
       IN handleLines(handled, Tail(lines))

\* MCPClient.handleData (part_008:226-246)
handleData(cl, data) ==
  LET lines == split(cl.buffer \o data)
  IN handleLines([cl EXCEPT !.buffer = Last(lines)], Pop(lines))

\* The lines a subprocess may write, and its outputs: at most MaxLines
\* lines, each ended by a newline, and possibly the start of a further one.
Lines ==
  {<<"r", "a">>, <<"r", LeadByte, TrailByte>>, <<"n">>, <<"x">>, <<" ">>}

RECURSIVE LineSeqs(_)
LineSeqs(n) ==
  IF n = 0 THEN {<<>>}
  ELSE LineSeqs(n - 1)
         \cup {o \o line \o <<Newline>> : o \in LineSeqs(n - 1), line \in Lines}

ProcessOutputs ==
  LineSeqs(MaxLines) \cup {o \o <<"r">> : o \in LineSeqs(MaxLines)}

\* A connected client that has sent a tools/call request and waits for
\* the response, its subprocess about to write output; besides the fields
\* of MCPClient the record holds the bytes the subprocess writes (stdout),
\* how many of them were delivered (read) and the messages handled so far
\* (decoded).
Listening(output) ==
  [buffer |-> <<>>, stdout |-> output, read |-> 0, decoded |-> <<>>]
    @@ RunJobs(callTool(begin(ConnectedClient), "search"))

DataInit ==
  /\ TaskFields
  /\ HostUnused
  /\ maxLoopCount = 1
  /\ client \in {<<Listening(output)>> : output \in ProcessOutputs}
  /\ registry = [NewRegistry EXCEPT !.clients["A"] = 1, !.created = 1]

\* part_008:129-131  a data event with the next n bytes of the output.
DataArrives(n) ==
  /\ n \in 1..(Len(client[1].stdout) - client[1].read)
  /\ client' = [client EXCEPT ![1] =
                  RunJobs(handleData(
                    [begin(@) EXCEPT !.read = @ + n],
                    toString(SubSeq(client[1].stdout, client[1].read + 1,
                                    client[1].read + n))))]
  /\ UNCHANGED <<vars, registry, hostVars>>

DataNext == \E n \in 1..(MaxLines * 4 + 1) : DataArrives(n)

DataSpec == DataInit /\ [][DataNext]_<<vars, mcpVars, hostVars>>

\* What decoding has left of a client: what is buffered, the messages
\* handled, the pending requests and their timers, and the status.
Decoded(cl) ==
  <<cl.buffer, cl.decoded, cl.pendingRequests, cl.timers, cl.status>>

\* The output of the subprocess delivered in one data event.
AtOnce(output) == RunJobs(handleData(begin(Listening(output)), toString(output)))

\* C34: message decoding is independent of how the output of the
\* subprocess is split into data events: once the whole output has been
\* delivered, the messages handled (each complete line once, in order),
\* what stays buffered, the pending requests, their timers and the status
\* are those of the same output delivered in a single data event.
C34_DecodingIgnoresChunking ==
  client[1].read = Len(client[1].stdout)
    => Decoded(client[1]) = Decoded(AtOnce(client[1].stdout))

\* ------------------------------------------------------ Task: termination
\* The steps the Task takes by itself: its code runs on, and what it awaits
\* (collectContext, the model stream, executeTool, the 1 s timer of the
\* error handler) returns or fails.  Cancel, a call of the host, and
\* StreamChunk, the arrival of one more chunk, are not among them.
TaskRuns ==
  \/ StartCollected
  \/ StartCollectFail
  \/ LoopCancelled
  \/ LoopLimit
  \/ LoopIterate
  \/ OpenStream
  \/ PromptFail
  \/ StreamEnd
  \/ StreamFail
  \/ NoToolCalls
  \/ BeginTools
  \/ DispatchTool
  \/ ToolReturn
  \/ DispatchFail
  \/ ToolsDone
  \/ RecordResult
  \/ HistoryUpdateFail
  \/ CompletionRequested
  \/ ContinueLoop
  \/ RetryAfterDelay

\* The Task under the assumption that every await returns or fails.
TerminationFairSpec == Init /\ [][Next]_vars /\ WF_vars(TaskRuns)

\* C35: every started Task eventually reaches a terminal state and posts
\* task_complete, whatever the replies, tool errors, failures and
\* cancellations: start() eventually resolves, and whenever it has
\* resolved the Task is completed and has posted task_complete once.
C35_TaskTerminates ==
  /\ <>Resolved
  /\ [](Resolved => isCompleted /\ taskCompletes = 1)

\* C35 witness: the Task ended at the iteration limit after text-only
\* replies and a failure that was retried, having been cancelled at no
\* time.
C35_Witness ==
  /\ Resolved
  /\ isCompleted
  /\ completedBy = "limit"
  /\ taskCompletes = 1
  /\ faults > 0
  /\ ~isCancelled
  /\ loopCount = MaxCap

\* ------------------------------------------------------ Task: completion
\* C36: task_complete is posted at most once per Task, whichever of
\* cancel(), the loop (completion tool, empty reply, iteration limit) and
\* the error handler calls completeTask first and whichever call it again:
\* the first call decides, a completed Task posts no task_complete and
\* keeps the call site that completed it; and the file-change tracker is
\* detached exactly when task_complete is posted.
C36_CompletedOnce ==
  /\ [](taskCompletes <= 1 /\ (fileChangeTracker <=> taskCompletes = 0))
  /\ [][isCompleted => /\ taskCompletes' = taskCompletes
                       /\ completedBy' = completedBy]_vars
  /\ [][(taskCompletes' # taskCompletes)
          <=> (fileChangeTracker /\ ~fileChangeTracker')]_vars

\* C36 witness: cancel() completed the Task while a batch with the
\* completion tool was executing; the batch was recorded and the loop
\* called completeTask again, which posted nothing.
C36_Witness ==
  /\ Resolved
  /\ completedBy = "cancel"
  /\ taskCompletes = 1
  /\ ~fileChangeTracker
  /\ faults = 0
  /\ hasAttemptCompletion(toolCalls)
  /\ recorded = Len(results)
  /\ recorded >= 1

\* ------------------------------------------- Task: silence after cancel
\* C37: once cancel() has posted task_complete the cancelled Task posts
\* no further message to the webview (stream_chunk, tool_call, tool_result,
\* token_usage, error), whether it was cancelled while a model stream was
\* open or while a tool batch was executing.
C37_SilentAfterCancel ==
  [][(/\ isCancelled
       /\ completedBy = "cancel"
       /\ \/ Running("loop", "streaming")
          \/ Running("loop", "tools")
          \/ Running("loop", "record"))
       => (events' = events \/ events' = <<>>)]_vars

\* ------------------------------------------ MCPClient: replaced subprocess
\* A client that may have a subprocess it killed, whose exit event is still
\* to come, beside the subprocess of its next connect() call.
ReplacedSlots == 1..(MaxProcs + 1)

ReplaceInit ==
  /\ TaskFields
  /\ HostUnused
  /\ maxLoopCount = 1
  /\ client = <<[NewClient EXCEPT !.procs = [k \in ReplacedSlots |-> "none"],
                                  !.connects = [k \in ReplacedSlots |-> NoConnect]]>>
  /\ registry = [NewRegistry EXCEPT !.created = 1]

ReplaceNext ==
  \/ \E c \in Clients : Connect(c)
  \/ \E c \in Clients, k \in ReplacedSlots : Stderr(c, k)
  \/ \E c \in Clients, k \in ReplacedSlots : ProcessExit(c, k)
  \/ \E c \in Clients, k \in ReplacedSlots : ProcessError(c, k)
  \/ \E c \in Clients, k \in ReplacedSlots : GraceElapsed(c, k)
  \/ \E c \in Clients : LineArrives(c)
  \/ \E c \in Clients : PartialArrives(c)
  \/ \E c \in Clients : RequestTimeout(c)
  \/ \E c \in Clients : Disconnect(c)
  \/ \E c \in Clients : CallTool(c)

ReplaceSpec == ReplaceInit /\ [][ReplaceNext]_<<vars, mcpVars, hostVars>>

\* The exit or error event of subprocess k is delivered after the client
\* killed it and spawned another.
LateEvent(k) ==
  /\ client[1].process \notin {0, k}
  /\ client[1].procs[k] = "killed"
  /\ client'[1].procs[k] \in {"gone", "errored"}

\* C38: an exit or error event of a subprocess the client has replaced
\* leaves the newer session as it is: the new subprocess is not killed, the
\* pending requests of the new session are not rejected and the status
\* does not change.
C38_LateEventHarmless ==
  [][\A k \in ReplacedSlots :
       LateEvent(k) =>
         /\ client'[1].process = client[1].process
         /\ client'[1].procs[client[1].process] = client[1].procs[client[1].process]
         /\ client'[1].pendingRequests = client[1].pendingRequests
         /\ client'[1].status = client[1].status]_<<vars, mcpVars, hostVars>>

\* -------------------------------------------- MCPClient: requests settle
\* The timer that sendRequest armed for request id fires
\* (part_008:288-291): a timer that is armed and not cleared does fire.
TimerFires(id) ==
  /\ RequestTimeout(1)
  /\ id \in client[1].timers
  /\ id \notin client'[1].timers

McpFairSpec ==
  /\ McpInit
  /\ [][McpNext]_<<vars, mcpVars, hostVars>>
  /\ \A id \in 1..MaxRequests : WF_<<vars, mcpVars, hostVars>>(TimerFires(id))

\* C39: every request the client sends is settled in the end (resolved by
\* its response, or rejected by an error response, its timeout or a
\* disconnect); and a client whose status is disconnected has no pending
\* request and no armed request timer.
C39_RequestsSettle ==
  /\ [](\A c \in DOMAIN client :
          client[c].status = "disconnected"
            => client[c].pendingRequests = {} /\ client[c].timers = {})
  /\ \A id \in 1..MaxRequests :
       (client[1].requests[id].outcome = "pending")
         ~> (client[1].requests[id].outcome # "pending")

\* C39 witness: a request was rejected by its timeout and the client is
\* disconnected (the handshake request of connect() timed out).
C39_Witness ==
  /\ client[1].status = "disconnected"
  /\ \E id \in 1..MaxRequests :
       /\ client[1].requests[id].outcome = "rejected"
       /\ client[1].requests[id].reason = Msg("Request timeout", "")

\* ------------------------------------- PermissionManager: resolved once
\* The request of call requestId went to the webview and was decided.
Decided(pm, requestId) ==
  /\ requestId \in DOMAIN pm.calls
  /\ pm.calls[requestId].via = "webview"
  /\ pm.calls[requestId].outcome # "pending"

\* C40: a permission request sent to the webview is resolved exactly once,
\* by whichever of the permission_response and the timeout comes first,
\* which also removes its entry; a later or repeated response and a later
\* timeout change no decision and no entry, and a response with an id
\* that is not pending changes nothing at all.
C40_ResolvedExactlyOnce ==
  /\ [](\A requestId \in 1..MaxChecks :
          requestId \in permission.pendingRequests
            <=> /\ requestId \in DOMAIN permission.calls
                /\ permission.calls[requestId].via = "webview"
                /\ permission.calls[requestId].outcome = "pending")
  /\ [][\A requestId \in 1..MaxChecks :
          /\ Decided(permission, requestId)
               => permission'.calls[requestId] = permission.calls[requestId]
          /\ \A approved \in BOOLEAN :
               handlePermissionResponse(requestId, approved) =>
                 IF requestId \in permission.pendingRequests
                 THEN /\ permission'.calls[requestId].outcome =
                           IF approved THEN "approved" ELSE "denied"
                      /\ permission'.calls[requestId].by = "user"
                      /\ permission'.pendingRequests =
                           permission.pendingRequests \ {requestId}
                 ELSE permission' = permission
          /\ PermissionTimeout(requestId) =>
               IF requestId \in permission.pendingRequests
               THEN /\ permission'.calls[requestId].outcome = "denied"
                    /\ permission'.calls[requestId].by = "timeout"
                    /\ permission'.pendingRequests =
                         permission.pendingRequests \ {requestId}
               ELSE /\ permission'.calls = permission.calls
                    /\ permission'.pendingRequests = permission.pendingRequests
       ]_<<vars, mcpVars, hostVars>>

\* C40 witness: the user answered the first request and its timer fired
\* afterwards, changing nothing; the second request was decided by its
\* timeout.
C40_Witness ==
  /\ Len(permission.calls) = 2
  /\ Decided(permission, 1)
  /\ permission.calls[1].outcome = "approved"
  /\ permission.calls[1].by = "user"
  /\ 1 \notin permission.timers
  /\ Decided(permission, 2)
  /\ permission.calls[2].by = "timeout"
  /\ permission.pendingRequests = {}
====
